---- MODULE Spec2Model ----
(***************************************************************************)
(* Verification model of Echo's core services:                             *)
(*   - DatabaseService  (src/src/services/database.js, lines 1-533)        *)
(*   - LLMService       (src/src/services/llm.js, lines 1-714)             *)
(*   - ASRService       (src/unnamed/part_000)                             *)
(* Each service has its own specifications over the shared variables      *)
(* (SpecStore, SpecCache, SpecRestart; SpecLLM, SpecChain, SpecQuota,      *)
(* SpecScreen, SpecEvict, SpecRetry; SpecASR, SpecGate, SpecWindow,        *)
(* SpecRetention, SpecOverlap for session calls that are not awaited,      *)
(* SpecBackoff for the two retry loops;                                    *)
(* SpecApp for the orchestrator of src/src/main.js); a specification       *)
(* leaves the variables of the other services unchanged.  The providers'   *)
(* generate calls, the operation of withRetry and the transcriber's        *)
(* transcribeAudio are backends: each call is a suspension point that the  *)
(* environment resolves with a result or an exception.                     *)
(*                                                                         *)
(* Conventions: an optional value (JS null) is the empty sequence <<>> and *)
(* a present value v is <<v>>; a text is a sequence of one-character       *)
(* strings; times are milliseconds since the epoch of the model (and whole *)
(* days besides, where a specification spans weeks).                       *)
(***************************************************************************)
EXTENDS Integers, Sequences, FiniteSets, TLC

VARIABLES
    \* ---- clock (Date.now(), SQLite datetime('now')) ----
    now,             \* milliseconds on the clock
    nowDays,         \* whole days on the clock besides (moved by DayTick)
    \* ---- DatabaseService ----
    dbOpen,          \* this.db is an open connection
    inMemory,        \* this.inMemory: the connection is the :memory: fallback
    keytarOn,        \* the keytar module loaded (database.js:16-22)
    keychain,        \* OS keychain entry echo-copilot/encryption-key (0 = none)
    keyFile,         \* content of echo.key (0 = no file)
    encryptionKey,   \* this.encryptionKey (0 = null)
    keysMade,        \* number of keys drawn from crypto.randomBytes so far
    sessions,        \* table sessions: set of rows
    nextSessionId,   \* AUTOINCREMENT counter of sessions
    transcripts,     \* table transcripts: sequence of rows (insertion order)
    suggestions,     \* table suggestions
    actions,         \* table actions
    integrations,    \* table integrations
    profiles,        \* table profiles
    metrics,         \* table metrics
    context_cache,   \* table context_cache: set of rows, key unique
    dbLast,          \* observation of the last DatabaseService call
    \* ---- LLMService ----
    providers,       \* this.providers: provider name -> configured
    currentProvider, \* this.currentProvider ("null" = null)
    responseCache,   \* this.responseCache: entries in Map insertion order
    rateLimits,      \* this.rateLimits: provider -> [requests, resetTime]
    llmCall,         \* the getSuggestions call in flight
    llmLast,         \* observation of the last getSuggestions call returned
    llmBegun,        \* number of getSuggestions calls begun
    watched,         \* the provider whose generate calls are counted
    sentNow,         \* generate calls sent to it at this instant of the clock
    llmErr,          \* observation of the last failure of a generate call
    retryCall,       \* the withRetry call of an LLMProvider
    \* ---- ASRService ----
    isInitialized,   \* this.isInitialized
    isRecording,     \* this.isRecording
    audioBuffer,     \* this.audioBuffer: the chunks held, oldest first
    currentSessionId,  \* this.currentSessionId (0 = null)
    streamingInterval, \* this.streamingInterval is a running timer
    lastTranscript,  \* this.lastTranscript
    consecutiveErrors, \* this.consecutiveErrors
    passes,          \* processAudioBuffer calls awaiting the transcriber
    chunksMade,      \* number of chunks the capture producer has appended
    passesBegun,     \* number of passes that reached the transcriber
    heard,           \* chunks handed to the transcriber in some pass
    lost,            \* chunks cleared from the buffer that were never heard
    breakerEvents,   \* session-error events of the breaker in this session
    asrLast,         \* observation of the last handleTranscript call
    lastRaw,         \* text, as recognised, of the last transcript emitted
    skipped,         \* passes that ended at the minimum-length check
    calls,           \* per chunk, the transcribeAudio calls that carried it
    asrCall,         \* observation of the last session or cleanup call of ASR
    timers,          \* the interval timers that run, and the one
                     \* this.streamingInterval names
    asrStarts,       \* startSession calls suspended at an await
    \* ---- EchoApp (main.js) ----
    currentSession,  \* this.currentSession: the id of its session (0 = null)
    appStops,        \* EchoApp.stopSession calls awaiting the session summary
    appLast          \* observation of the last EchoApp call that returned

dbVars == <<dbOpen, inMemory, keytarOn, keychain, keyFile, encryptionKey, keysMade,
            sessions, nextSessionId, transcripts, suggestions, actions,
            integrations, profiles, metrics, context_cache, dbLast>>

llmVars == <<providers, currentProvider, responseCache, rateLimits, llmCall,
             llmLast, llmBegun, watched, sentNow, llmErr, retryCall>>

asrVars == <<isInitialized, isRecording, audioBuffer, currentSessionId,
             streamingInterval, lastTranscript, consecutiveErrors, passes,
             chunksMade, passesBegun, heard, lost, breakerEvents, asrLast,
             lastRaw, skipped, calls, asrCall, timers, asrStarts>>

appVars == <<currentSession, appStops, appLast>>

vars == <<now, nowDays, dbVars, llmVars, asrVars, appVars>>

Null == <<>>
Some(v) == <<v>>

Min(a, b) == IF a < b THEN a ELSE b

----------------------------------------------------------------------------
\* Bounds of the model
MaxKeys == 2          \* keys drawn from the random source
MaxSessions == 1      \* session rows ever created
MaxRows == 2          \* rows in the child tables together
MaxCacheTicks == 4    \* clock steps taken in SpecCache
MaxCalls == 2         \* getSuggestions calls begun in SpecLLM
MaxChainCalls == 2    \* getSuggestions calls begun in SpecChain
MaxLlmTicks == 3      \* clock steps taken in SpecLLM
MaxQuotaCalls == 31   \* getSuggestions calls begun in SpecQuota
MaxQuotaTicks == 1    \* clock steps taken in SpecQuota
TriedCap == 2         \* the count of tries of one provider saturates here
ChunkSamples == 4000  \* samples in one chunk the capture producer appends
MaxChunks == 3        \* chunks appended in SpecASR
MaxPasses == 6        \* passes begun in SpecASR
MaxInFlight == 2      \* passes awaiting the transcriber at once in SpecASR
MaxGateChunks == 4    \* chunks appended in SpecGate
MaxGatePasses == 3    \* passes begun in SpecGate
MaxWindowChunks == 3  \* chunks appended in SpecWindow
MaxWindowPasses == 3  \* passes begun in SpecWindow
MaxSkips == 2         \* passes ended at the minimum-length check in SpecWindow
CallCap == 2          \* the count of calls that carried one chunk saturates here
MaxScreenCalls == 2   \* getSuggestions calls begun in SpecScreen
FillCalls == 98       \* calls of SpecEvict that each bring one new key
MaxEvictCalls == 102  \* getSuggestions calls begun in SpecEvict
MaxAppSessions == 2   \* sessions created in SpecApp
MaxAppStops == 2      \* stopSession calls awaiting their summary in SpecApp
MaxAppTicks == 2      \* clock steps taken in SpecApp
MaxRetryCalls == 2    \* withRetry calls made in SpecRetry
MaxStarts == 2        \* startSession calls suspended at once in SpecOverlap
MaxTimers == 3        \* interval timers running at once in SpecOverlap
MaxBackoffCalls == 1  \* withRetry calls made in SpecBackoff
MaxBackoffChunks == 2 \* chunks appended in SpecBackoff
MaxBackoffPasses == 2 \* passes begun in SpecBackoff
RetentionTickDays == 20  \* days in one clock step of SpecRetention
MaxRetentionTicks == 3   \* clock steps taken in SpecRetention

\* Clock step of SpecCache: six hours
CacheTickMs == 6 * 3600 * 1000
MsPerDay == 24 * 3600 * 1000
MsPerSecond == 1000
\* Clock step of SpecLLM: 100 seconds
LlmTickMs == 100 * 1000

----------------------------------------------------------------------------
\* DatabaseService

NoKey == 0

TableNames == {"sessions", "transcripts", "suggestions", "actions",
               "integrations", "profiles", "metrics", "context_cache"}

\* The content of the eight tables as one record
Tables == [sessions |-> sessions, transcripts |-> transcripts,
           suggestions |-> suggestions, actions |-> actions,
           integrations |-> integrations, profiles |-> profiles,
           metrics |-> metrics, context_cache |-> context_cache]

EmptyTables == [sessions |-> {}, transcripts |-> <<>>, suggestions |-> <<>>,
                actions |-> <<>>, integrations |-> {}, profiles |-> {},
                metrics |-> <<>>, context_cache |-> {}]

SessionIds == {s.id : s \in sessions}

\* encrypt: a falsy plaintext gives null; otherwise the AES-256-GCM box of the
\* plaintext under the key with a fresh IV
encrypt(plaintext, key, iv) ==
    IF plaintext = <<>> THEN Null
    ELSE Some([key |-> key, iv |-> iv, pt |-> plaintext])

\* decrypt: null for a falsy input; the auth tag check fails under another key
decrypt(encryptedData, key) ==
    IF encryptedData = Null THEN [ok |-> TRUE, val |-> Null]
    ELSE IF encryptedData[1].key # key THEN [ok |-> FALSE, val |-> Null]
    ELSE [ok |-> TRUE, val |-> Some(encryptedData[1].pt)]

\* Date.prototype.toISOString: "YYYY-MM-DDTHH:MM:SS.mmmZ" as the sequence
\* <<date, code of 'T', second of the day, millisecond>>
toISOString(ms) ==
    <<nowDays + (ms \div MsPerDay), 84, (ms % MsPerDay) \div MsPerSecond, ms % MsPerSecond>>

\* SQLite datetime('now'): "YYYY-MM-DD HH:MM:SS" as the sequence
\* <<date, code of ' ', second of the day>>
datetimeNow(ms) ==
    <<nowDays + (ms \div MsPerDay), 32, (ms % MsPerDay) \div MsPerSecond>>

\* SQLite's comparison of two TEXT values: byte-wise, a proper prefix is less
RECURSIVE TextLess(_, _)
TextLess(a, b) ==
    IF b = <<>> THEN FALSE
    ELSE IF a = <<>> THEN TRUE
    ELSE IF Head(a) # Head(b) THEN Head(a) < Head(b)
    ELSE TextLess(Tail(a), Tail(b))

\* The neutral observation: the last call was none of the observed ones
NoObs == [op |-> "none", ok |-> TRUE, key |-> "", at |-> 0, res |-> Null,
          row |-> Null]

\* initializeEncryptionKey: the key from the keychain (keytar loaded) or from
\* the key file, a fresh random key stored there when none exists.
\*   readFail: keytar.getPassword / fs.readFileSync throws
\* initializeDatabase: the database file is opened.
\*   openFail: new Database(dbPath) throws; the catch logs the error, opens
\*   ':memory:' and sets this.inMemory.  initialize returns no value and
\*   the service emits no event, so the observation's res stays null
initialize(readFail, openFail) ==
    /\ ~dbOpen
    /\ LET have == IF keytarOn THEN keychain ELSE keyFile
           fresh == keysMade + 1
       IN  IF readFail
           THEN \* initialize rethrows: nothing was opened
                /\ UNCHANGED <<dbOpen, inMemory, keychain, keyFile,
                               encryptionKey, keysMade>>
                /\ dbLast' = [NoObs EXCEPT !.op = "initialize", !.ok = FALSE]
           ELSE /\ (have = NoKey) => keysMade < MaxKeys
                /\ encryptionKey' = IF have = NoKey THEN fresh ELSE have
                /\ keysMade' = IF have = NoKey THEN fresh ELSE keysMade
                /\ keychain' = IF keytarOn /\ have = NoKey THEN fresh ELSE keychain
                /\ keyFile' = IF ~keytarOn /\ have = NoKey THEN fresh ELSE keyFile
                /\ dbOpen' = TRUE
                /\ inMemory' = openFail
                /\ dbLast' = [NoObs EXCEPT !.op = "initialize"]
    /\ UNCHANGED <<now, nowDays, keytarOn, sessions, nextSessionId, transcripts,
                   suggestions, actions, integrations, profiles, metrics,
                   context_cache>>

\* initialize called on the store by the main process
DbInitialize(readFail, openFail) ==
    /\ initialize(readFail, openFail)
    /\ UNCHANGED <<llmVars, asrVars, appVars>>

\* The row INSERT INTO sessions makes: started_at is the column's DEFAULT
\* CURRENT_TIMESTAMP, ended_at is NULL
SessionRow(id) ==
    [id |-> id, started_at |-> datetimeNow(now), ended_at |-> Null]

\* updateSession that writes nothing
updateSessionNothing(rows, sessionId, endedAt) == rows

\* updateSession(sessionId, {ended_at}): UPDATE sessions SET ended_at = ?
\* WHERE id = ?
updateSession(rows, sessionId, endedAt) ==
    {IF r.id = sessionId THEN [r EXCEPT !.ended_at = Some(endedAt)] ELSE r :
        r \in rows}

\* createSession: INSERT INTO sessions, returns lastInsertRowid
createSession ==
    /\ dbOpen
    /\ nextSessionId <= MaxSessions
    /\ sessions' = sessions \cup {SessionRow(nextSessionId)}
    /\ nextSessionId' = nextSessionId + 1
    /\ dbLast' = NoObs
    /\ UNCHANGED <<now, nowDays, dbOpen, inMemory, keytarOn, keychain, keyFile,
                   encryptionKey, keysMade, transcripts, suggestions, actions,
                   integrations, profiles, metrics, context_cache>>
    /\ UNCHANGED <<llmVars, asrVars, appVars>>

\* The check of an insert into a child table with PRAGMA foreign_keys off
ForeignKeyOff(sessionId) == TRUE

\* The FOREIGN KEY (session_id) REFERENCES sessions (id) check of an insert
\* into a child table (PRAGMA foreign_keys = ON)
ForeignKeyOk(sessionId) == sessionId \in SessionIds

\* addTranscript: INSERT INTO transcripts; the insert throws when the
\* foreign key is violated and leaves the table unchanged.  The column
\* timestamp (DEFAULT CURRENT_TIMESTAMP) is the pair of date and timestamp
addTranscriptRows(rows, sessionId, text, confidence) ==
    Append(rows, [session_id |-> sessionId, text |-> text,
                  confidence |-> confidence, date |-> nowDays,
                  timestamp |-> now])

\* An insert of one row into a child table that carries only its session
ChildInsert(rows, sessionId) == Append(rows, [session_id |-> sessionId])

\* Number of rows in the four child tables
ChildRows == Len(transcripts) + Len(suggestions) + Len(actions) + Len(metrics)

DbAddTranscript(sessionId) ==
    /\ dbOpen
    /\ ChildRows < MaxRows
    /\ IF ForeignKeyOk(sessionId)
       THEN /\ transcripts' = addTranscriptRows(transcripts, sessionId, <<"t">>, 85)
            /\ dbLast' = NoObs
       ELSE /\ UNCHANGED transcripts
            /\ dbLast' = [NoObs EXCEPT !.op = "addTranscript", !.ok = FALSE]
    /\ UNCHANGED <<now, nowDays, dbOpen, inMemory, keytarOn, keychain, keyFile,
                   encryptionKey, keysMade, sessions, nextSessionId,
                   suggestions, actions, integrations, profiles, metrics,
                   context_cache>>
    /\ UNCHANGED <<llmVars, asrVars, appVars>>

\* addSuggestion, once per item of a list: INSERT INTO suggestions
RECURSIVE addSuggestionRows(_, _, _, _)
addSuggestionRows(rows, sessionId, channel, contents) ==
    IF contents = <<>> THEN rows
    ELSE addSuggestionRows(
            Append(rows, [session_id |-> sessionId, channel |-> channel,
                          content |-> Head(contents)]),
            sessionId, channel, Tail(contents))

DbAddSuggestion(sessionId) ==
    /\ dbOpen
    /\ ChildRows < MaxRows
    /\ IF ForeignKeyOk(sessionId)
       THEN /\ suggestions' = addSuggestionRows(suggestions, sessionId,
                                                "interview", <<<<"s">>>>)
            /\ dbLast' = NoObs
       ELSE /\ UNCHANGED suggestions
            /\ dbLast' = [NoObs EXCEPT !.op = "addSuggestion", !.ok = FALSE]
    /\ UNCHANGED <<now, nowDays, dbOpen, inMemory, keytarOn, keychain, keyFile,
                   encryptionKey, keysMade, sessions, nextSessionId,
                   transcripts, actions, integrations, profiles, metrics,
                   context_cache>>
    /\ UNCHANGED <<llmVars, asrVars, appVars>>

\* addAction: INSERT INTO actions
DbAddAction(sessionId) ==
    /\ dbOpen
    /\ ChildRows < MaxRows
    /\ IF ForeignKeyOk(sessionId)
       THEN /\ actions' = ChildInsert(actions, sessionId)
            /\ dbLast' = NoObs
       ELSE /\ UNCHANGED actions
            /\ dbLast' = [NoObs EXCEPT !.op = "addAction", !.ok = FALSE]
    /\ UNCHANGED <<now, nowDays, dbOpen, inMemory, keytarOn, keychain, keyFile,
                   encryptionKey, keysMade, sessions, nextSessionId,
                   transcripts, suggestions, integrations, profiles, metrics,
                   context_cache>>
    /\ UNCHANGED <<llmVars, asrVars, appVars>>

\* saveMetrics: INSERT INTO metrics
DbSaveMetrics(sessionId) ==
    /\ dbOpen
    /\ ChildRows < MaxRows
    /\ IF ForeignKeyOk(sessionId)
       THEN /\ metrics' = ChildInsert(metrics, sessionId)
            /\ dbLast' = NoObs
       ELSE /\ UNCHANGED metrics
            /\ dbLast' = [NoObs EXCEPT !.op = "saveMetrics", !.ok = FALSE]
    /\ UNCHANGED <<now, nowDays, dbOpen, inMemory, keytarOn, keychain, keyFile,
                   encryptionKey, keysMade, sessions, nextSessionId,
                   transcripts, suggestions, actions, integrations, profiles,
                   context_cache>>
    /\ UNCHANGED <<llmVars, asrVars, appVars>>

\* saveIntegration: INSERT OR REPLACE by the unique provider name, the access
\* token encrypted
saveIntegration(provider, accessToken, iv) ==
    /\ dbOpen
    /\ integrations' = {r \in integrations : r.provider # provider} \cup
          {[provider |-> provider,
            access_token_encrypted |-> encrypt(accessToken, encryptionKey, iv)]}
    /\ dbLast' = NoObs
    /\ UNCHANGED <<now, nowDays, dbOpen, inMemory, keytarOn, keychain, keyFile,
                   encryptionKey, keysMade, sessions, nextSessionId,
                   transcripts, suggestions, actions, profiles, metrics,
                   context_cache>>
    /\ UNCHANGED <<llmVars, asrVars, appVars>>

\* saveProfile: INSERT OR REPLACE of the row with id 1, resume and job
\* description encrypted (the observation keeps the resume that was given)
saveProfile(resume, jobDescription, iv) ==
    /\ dbOpen
    /\ profiles' = {[id |-> 1,
                     resume_blob_encrypted |-> encrypt(resume, encryptionKey, iv),
                     jd_blob_encrypted |-> encrypt(jobDescription, encryptionKey, iv)]}
    /\ dbLast' = [NoObs EXCEPT !.op = "saveProfile", !.res = Some(resume)]
    /\ UNCHANGED <<now, nowDays, dbOpen, inMemory, keytarOn, keychain, keyFile,
                   encryptionKey, keysMade, sessions, nextSessionId,
                   transcripts, suggestions, actions, integrations, metrics,
                   context_cache>>
    /\ UNCHANGED <<llmVars, asrVars, appVars>>

\* getProfile: null without the row with id 1; otherwise the row with its
\* resume and job description decrypted (a failing decrypt throws)
getProfileResult ==
    IF profiles = {} THEN [ok |-> TRUE, val |-> Null]
    ELSE LET row == CHOOSE r \in profiles : r.id = 1
             resume == decrypt(row.resume_blob_encrypted, encryptionKey)
             jobDescription == decrypt(row.jd_blob_encrypted, encryptionKey)
         IN  IF resume.ok /\ jobDescription.ok
             THEN [ok |-> TRUE,
                   val |-> Some([resume |-> resume.val,
                                 jobDescription |-> jobDescription.val])]
             ELSE [ok |-> FALSE, val |-> Null]

getProfile ==
    /\ dbOpen
    /\ dbLast' = [NoObs EXCEPT !.op = "getProfile", !.ok = getProfileResult.ok,
                               !.res = getProfileResult.val]
    /\ UNCHANGED <<now, nowDays, dbOpen, inMemory, keytarOn, keychain, keyFile,
                   encryptionKey, keysMade, sessions, nextSessionId,
                   transcripts, suggestions, actions, integrations, profiles,
                   metrics, context_cache>>
    /\ UNCHANGED <<llmVars, asrVars, appVars>>

\* JSON.stringify of a string value: the string in double quotes
JSONstringify(value) == <<"\"">> \o value \o <<"\"">>

\* JSON.parse of the JSON text of a string: the string without its quotes
JSONparse(text) == SubSeq(text, 2, Len(text) - 1)

\* setContextCache: INSERT OR REPLACE by the unique key; expires_at is the ISO
\* string of now + ttlSeconds * 1000
setContextCache(key, value, ttlSeconds, iv) ==
    /\ dbOpen
    /\ LET expiresAt == now + ttlSeconds * MsPerSecond
       IN  context_cache' = {r \in context_cache : r.key # key} \cup
              {[key |-> key,
                value_encrypted |-> encrypt(JSONstringify(value), encryptionKey, iv),
                expires_at |-> toISOString(expiresAt)]}
    /\ dbLast' = NoObs
    /\ UNCHANGED <<now, nowDays, dbOpen, inMemory, keytarOn, keychain, keyFile,
                   encryptionKey, keysMade, sessions, nextSessionId,
                   transcripts, suggestions, actions, integrations, profiles,
                   metrics>>
    /\ UNCHANGED <<llmVars, asrVars, appVars>>

\* The rows SELECT ... WHERE key = ? AND expires_at > datetime('now') finds
LiveCacheRows(key) ==
    {r \in context_cache :
        r.key = key /\ TextLess(datetimeNow(now), r.expires_at)}

\* getContextCache: the parsed, decrypted value of the live row, or null
getContextCacheResult(key) ==
    IF LiveCacheRows(key) = {} THEN [ok |-> TRUE, val |-> Null]
    ELSE LET row == CHOOSE r \in LiveCacheRows(key) : TRUE
             dec == decrypt(row.value_encrypted, encryptionKey)
         IN  IF dec.ok THEN [ok |-> TRUE, val |-> Some(JSONparse(dec.val[1]))]
             ELSE [ok |-> FALSE, val |-> Null]

getContextCache(key) ==
    /\ dbOpen
    /\ dbLast' = [op |-> "getContextCache", ok |-> getContextCacheResult(key).ok,
                  key |-> key, at |-> now,
                  res |-> getContextCacheResult(key).val,
                  row |-> IF \E r \in context_cache : r.key = key
                          THEN Some(CHOOSE r \in context_cache : r.key = key)
                          ELSE Null]
    /\ UNCHANGED <<now, nowDays, dbOpen, inMemory, keytarOn, keychain, keyFile,
                   encryptionKey, keysMade, sessions, nextSessionId,
                   transcripts, suggestions, actions, integrations, profiles,
                   metrics, context_cache>>
    /\ UNCHANGED <<llmVars, asrVars, appVars>>

\* cleanupExpiredCache: DELETE ... WHERE expires_at <= datetime('now')
cleanupExpiredCache ==
    /\ dbOpen
    /\ context_cache' =
          {r \in context_cache : TextLess(datetimeNow(now), r.expires_at)}
    /\ dbLast' = NoObs
    /\ UNCHANGED <<now, nowDays, dbOpen, inMemory, keytarOn, keychain, keyFile,
                   encryptionKey, keysMade, sessions, nextSessionId,
                   transcripts, suggestions, actions, integrations, profiles,
                   metrics>>
    /\ UNCHANGED <<llmVars, asrVars, appVars>>

\* deleteSession: DELETE FROM sessions WHERE id = ?, cascading to the child
\* tables (ON DELETE CASCADE)
RECURSIVE WithoutSession(_, _)
WithoutSession(rows, sessionId) ==
    IF rows = <<>> THEN <<>>
    ELSE IF Head(rows).session_id = sessionId
         THEN WithoutSession(Tail(rows), sessionId)
         ELSE <<Head(rows)>> \o WithoutSession(Tail(rows), sessionId)

deleteSession(sessionId) ==
    /\ dbOpen
    /\ sessions' = {r \in sessions : r.id # sessionId}
    /\ transcripts' = WithoutSession(transcripts, sessionId)
    /\ suggestions' = WithoutSession(suggestions, sessionId)
    /\ actions' = WithoutSession(actions, sessionId)
    /\ metrics' = WithoutSession(metrics, sessionId)
    /\ dbLast' = NoObs
    /\ UNCHANGED <<now, nowDays, dbOpen, inMemory, keytarOn, keychain, keyFile,
                   encryptionKey, keysMade, nextSessionId, integrations,
                   profiles, context_cache>>
    /\ UNCHANGED <<llmVars, asrVars, appVars>>

\* wipeAllData: the DELETEs of the eight tables in one transaction, then the
\* keychain entry, then the key file; a failure of either key removal is
\* caught and logged.
\*   txFail: the transaction throws (rolled back, wipeAllData rejects)
\*   keychainFail: keytar.deletePassword throws
\*   unlinkFail: fs.unlinkSync throws
wipeAllData(txFail, keychainFail, unlinkFail) ==
    /\ dbOpen
    /\ IF txFail
       THEN /\ UNCHANGED <<sessions, transcripts, suggestions, actions,
                           integrations, profiles, metrics, context_cache,
                           keychain, keyFile>>
            /\ dbLast' = [NoObs EXCEPT !.op = "wipeAllData", !.ok = FALSE]
       ELSE /\ sessions' = {}
            /\ transcripts' = <<>>
            /\ suggestions' = <<>>
            /\ actions' = <<>>
            /\ integrations' = {}
            /\ profiles' = {}
            /\ metrics' = <<>>
            /\ context_cache' = {}
            /\ keychain' = IF keytarOn /\ ~keychainFail THEN NoKey ELSE keychain
            /\ keyFile' = IF keyFile # NoKey /\ ~unlinkFail THEN NoKey ELSE keyFile
            /\ dbLast' = [NoObs EXCEPT !.op = "wipeAllData"]
    /\ UNCHANGED <<now, nowDays, dbOpen, inMemory, keytarOn, encryptionKey, keysMade,
                   nextSessionId>>
    /\ UNCHANGED <<llmVars, asrVars, appVars>>

\* The app is closed and run again: close() ends the connection and the
\* next run constructs the service anew, with this.db and this.encryptionKey
\* null.  The database file, the keychain and the key file stay as they
\* are; the tables of a ':memory:' database are gone
DbRestart ==
    /\ dbOpen
    /\ dbOpen' = FALSE
    /\ encryptionKey' = NoKey
    /\ inMemory' = FALSE
    /\ IF inMemory
       THEN /\ sessions' = {}
            /\ transcripts' = <<>>
            /\ suggestions' = <<>>
            /\ actions' = <<>>
            /\ integrations' = {}
            /\ profiles' = {}
            /\ metrics' = <<>>
            /\ context_cache' = {}
       ELSE UNCHANGED <<sessions, transcripts, suggestions, actions,
                        integrations, profiles, metrics, context_cache>>
    /\ dbLast' = NoObs
    /\ UNCHANGED <<now, nowDays, keytarOn, keychain, keyFile, keysMade,
                   nextSessionId>>
    /\ UNCHANGED <<llmVars, asrVars, appVars>>

\* The clock of SpecCache moves on by six hours
CacheTick ==
    /\ now < MaxCacheTicks * CacheTickMs
    /\ now' = now + CacheTickMs
    /\ UNCHANGED <<nowDays, dbVars>>
    /\ UNCHANGED <<llmVars, asrVars, appVars>>
----------------------------------------------------------------------------
\* Texts: sequences of one-character strings

\* The printable ASCII characters, in code order from 32 (space) to 126 (the
\* grave accent, code 96, is written BACKTICK; the bullet U+2022 is BULLET)
Ascii == <<" ", "!", "\"", "#", "$", "%", "&", "'", "(", ")", "*", "+", ",",
    "-", ".", "/", "0", "1", "2", "3", "4", "5", "6", "7", "8", "9", ":",
    ";", "<", "=", ">", "?", "@", "A", "B", "C", "D", "E", "F", "G", "H",
    "I", "J", "K", "L", "M", "N", "O", "P", "Q", "R", "S", "T", "U", "V",
    "W", "X", "Y", "Z", "[", "\\", "]", "^", "_", "BACKTICK", "a", "b", "c", "d",
    "e", "f", "g", "h", "i", "j", "k", "l", "m", "n", "o", "p", "q", "r",
    "s", "t", "u", "v", "w", "x", "y", "z", "{", "|", "}", "~">>

\* this.dangerousPatterns: each expression matches where its literal text
\* occurs (the optional last s of /instructions?/ decides no match)
dangerousPatterns ==
  <<<<"i", "g", "n", "o", "r", "e", " ", "p", "r", "e", "v", "i", "o", "u", "s",
     " ", "i", "n", "s", "t", "r", "u", "c", "t", "i", "o", "n">>,
    <<"f", "o", "r", "g", "e", "t", " ", "e", "v", "e", "r", "y", "t", "h", "i",
     "n", "g">>,
    <<"s", "y", "s", "t", "e", "m", " ", "p", "r", "o", "m", "p", "t">>,
    <<"y", "o", "u", " ", "a", "r", "e", " ", "n", "o", "w">>,
    <<"a", "c", "t", " ", "a", "s", " ", "i", "f">>,
    <<"p", "r", "e", "t", "e", "n", "d", " ", "t", "o", " ", "b", "e">>,
    <<"r", "o", "l", "e", "p", "l", "a", "y", " ", "a", "s">>>>

\* this.blockedCommands
blockedCommands ==
  <<<<"e", "x", "e", "c", "u", "t", "e">>,
    <<"r", "u", "n">>,
    <<"e", "v", "a", "l">>,
    <<"s", "y", "s", "t", "e", "m">>,
    <<"s", "h", "e", "l", "l">>,
    <<"c", "m", "d">>,
    <<"s", "u", "d", "o">>,
    <<"a", "d", "m", "i", "n">>,
    <<"r", "o", "o", "t">>,
    <<"d", "e", "l", "e", "t", "e">>,
    <<"d", "r", "o", "p">>,
    <<"t", "r", "u", "n", "c", "a", "t", "e">>>>

\* getFallbackSuggestions: the interview list
FallbackInterview ==
  <<<<"H", "i", "g", "h", "l", "i", "g", "h", "t", " ", "y", "o", "u", "r", " ",
     "r", "e", "l", "e", "v", "a", "n", "t", " ", "e", "x", "p", "e", "r",
     "i", "e", "n", "c", "e">>,
    <<"P", "r", "o", "v", "i", "d", "e", " ", "a", " ", "s", "p", "e", "c", "i",
     "f", "i", "c", " ", "e", "x", "a", "m", "p", "l", "e">>,
    <<"A", "s", "k", " ", "a", " ", "c", "l", "a", "r", "i", "f", "y", "i", "n",
     "g", " ", "q", "u", "e", "s", "t", "i", "o", "n">>,
    <<"C", "o", "n", "n", "e", "c", "t", " ", "t", "o", " ", "t", "h", "e", " ",
     "r", "o", "l", "e", " ", "r", "e", "q", "u", "i", "r", "e", "m", "e",
     "n", "t", "s">>>>

\* getFallbackSuggestions: the meeting list
FallbackMeeting ==
  <<<<"S", "h", "a", "r", "e", " ", "a", " ", "r", "e", "l", "e", "v", "a", "n",
     "t", " ", "i", "n", "s", "i", "g", "h", "t">>,
    <<"A", "s", "k", " ", "a", "b", "o", "u", "t", " ", "n", "e", "x", "t", " ",
     "s", "t", "e", "p", "s">>,
    <<"P", "r", "o", "p", "o", "s", "e", " ", "a", "n", " ", "a", "c", "t", "i",
     "o", "n", " ", "i", "t", "e", "m">>,
    <<"C", "l", "a", "r", "i", "f", "y", " ", "e", "x", "p", "e", "c", "t", "a",
     "t", "i", "o", "n", "s">>>>

\* getFallbackSuggestions: the jira list
FallbackJira ==
  <<<<"A", "d", "d", " ", "c", "l", "e", "a", "r", " ", "a", "c", "c", "e", "p",
     "t", "a", "n", "c", "e", " ", "c", "r", "i", "t", "e", "r", "i", "a">>,
    <<"I", "n", "c", "l", "u", "d", "e", " ", "r", "e", "l", "e", "v", "a", "n",
     "t", " ", "c", "o", "n", "t", "e", "x", "t">>,
    <<"S", "p", "e", "c", "i", "f", "y", " ", "c", "o", "m", "p", "l", "e", "t",
     "i", "o", "n", " ", "c", "r", "i", "t", "e", "r", "i", "a">>,
    <<"L", "i", "n", "k", " ", "r", "e", "l", "a", "t", "e", "d", " ", "i", "s",
     "s", "u", "e", "s">>>>

\* getFallbackSuggestions: the confluence list
FallbackConfluence ==
  <<<<"A", "d", "d", " ", "a", " ", "s", "u", "m", "m", "a", "r", "y", " ", "s",
     "e", "c", "t", "i", "o", "n">>,
    <<"I", "n", "c", "l", "u", "d", "e", " ", "a", "c", "t", "i", "o", "n", " ",
     "i", "t", "e", "m", "s">>,
    <<"S", "t", "r", "u", "c", "t", "u", "r", "e", " ", "w", "i", "t", "h", " ",
     "h", "e", "a", "d", "i", "n", "g", "s">>,
    <<"A", "d", "d", " ", "r", "e", "l", "e", "v", "a", "n", "t", " ", "l", "i",
     "n", "k", "s">>>>

\* getFallbackSuggestions: the chat list
FallbackChat ==
  <<<<"K", "e", "e", "p", " ", "i", "t", " ", "c", "o", "n", "c", "i", "s",
     "e">>,
    <<"U", "s", "e", " ", "a", "p", "p", "r", "o", "p", "r", "i", "a", "t", "e",
     " ", "t", "o", "n", "e">>,
    <<"I", "n", "c", "l", "u", "d", "e", " ", "r", "e", "l", "e", "v", "a", "n",
     "t", " ", "c", "o", "n", "t", "e", "x", "t">>,
    <<"A", "s", "k", " ", "i", "f", " ", "c", "l", "a", "r", "i", "f", "i", "c",
     "a", "t", "i", "o", "n", " ", "n", "e", "e", "d", "e", "d">>>>

\* String.prototype.charCodeAt of each character of the alphabet
CodeOf ==
    [c \in {Ascii[i] : i \in 1 .. Len(Ascii)} \cup {"\n", "\t", "BULLET"} |->
        IF c = "\n" THEN 10
        ELSE IF c = "\t" THEN 9
        ELSE IF c = "BULLET" THEN 8226
        ELSE 31 + (CHOOSE i \in 1 .. Len(Ascii) : Ascii[i] = c)]

CharCode(c) == CodeOf[c]

IsUpper(c) == CharCode(c) \in 65 .. 90
IsLower(c) == CharCode(c) \in 97 .. 122
IsDigit(c) == CharCode(c) \in 48 .. 57
\* \s of a regular expression, and what trim() removes
IsSpace(c) == c \in {" ", "\t", "\n"}

\* String.prototype.toLowerCase
toLowerCase(text) ==
    [i \in 1 .. Len(text) |->
        IF IsUpper(text[i]) THEN Ascii[CharCode(text[i]) + 32 - 31] ELSE text[i]]

\* String.prototype.includes
includes(text, part) ==
    \E i \in 0 .. (Len(text) - Len(part)) :
        SubSeq(text, i + 1, i + Len(part)) = part

RECURSIVE DropSpaces(_)
DropSpaces(text) ==
    IF text # <<>> /\ IsSpace(Head(text)) THEN DropSpaces(Tail(text)) ELSE text

RECURSIVE DropSpacesEnd(_)
DropSpacesEnd(text) ==
    IF text # <<>> /\ IsSpace(text[Len(text)])
    THEN DropSpacesEnd(SubSeq(text, 1, Len(text) - 1))
    ELSE text

\* String.prototype.trim
trim(text) == DropSpacesEnd(DropSpaces(text))

\* String.prototype.split('\n'): the pieces between consecutive line breaks
splitLines(text) ==
    LET breaks == {i \in 1 .. Len(text) : text[i] = "\n"}
        \* position of the k-th line break; 0 before the first, Len + 1 at the end
        BreakAt(k) ==
            IF k = 0 THEN 0
            ELSE IF k > Cardinality(breaks) THEN Len(text) + 1
            ELSE CHOOSE i \in breaks :
                    Cardinality({j \in breaks : j < i}) = k - 1
    IN  [k \in 1 .. Cardinality(breaks) + 1 |->
            SubSeq(text, BreakAt(k - 1) + 1, BreakAt(k) - 1)]

\* Array.prototype.join('\n')
RECURSIVE joinLines(_)
joinLines(items) ==
    IF items = <<>> THEN <<>>
    ELSE IF Len(items) = 1 THEN Head(items)
    ELSE Head(items) \o <<"\n">> \o joinLines(Tail(items))

----------------------------------------------------------------------------
\* Regular expressions and the redaction of both services

AsciiChars == {Ascii[i] : i \in 1 .. Len(Ascii)}
UpperChars == {c \in AsciiChars : IsUpper(c)}
LowerChars == {c \in AsciiChars : IsLower(c)}
DigitChars == {c \in AsciiChars : IsDigit(c)}
\* \w of a regular expression
WordChars == UpperChars \cup LowerChars \cup DigitChars \cup {"_"}
SpaceChars == {" ", "\t", "\n"}

\* One element of a regular expression: between min and max characters of a
\* class, as many as possible (max = 0: no upper limit)
Item(class, min, max) == [class |-> class, min |-> min, max |-> max]
One(class) == Item(class, 1, 1)
Many(class) == Item(class, 1, 0)

\* The patterns of redactPIIFromTranscript, each between two \b; a pattern
\* with an optional group is the alternative with the group, then without
EmailPattern ==
    <<<<Many(UpperChars \cup LowerChars \cup DigitChars
             \cup {".", "_", "%", "+", "-"}),
        One({"@"}),
        Many(UpperChars \cup LowerChars \cup DigitChars \cup {".", "-"}),
        One({"."}),
        Item(UpperChars \cup LowerChars \cup {"|"}, 2, 0)>>>>
SsnPattern ==
    <<<<Item(DigitChars, 3, 3), One({"-"}), Item(DigitChars, 2, 2), One({"-"}),
        Item(DigitChars, 4, 4)>>>>
CardPattern ==
    <<<<Item(DigitChars, 4, 4), Item(SpaceChars \cup {"-"}, 0, 1),
        Item(DigitChars, 4, 4), Item(SpaceChars \cup {"-"}, 0, 1),
        Item(DigitChars, 4, 4), Item(SpaceChars \cup {"-"}, 0, 1),
        Item(DigitChars, 4, 4)>>>>
PhonePattern ==
    <<<<Item(DigitChars, 3, 3), One({"-"}), Item(DigitChars, 3, 3), One({"-"}),
        Item(DigitChars, 4, 4)>>>>
NamePattern ==
    <<<<One(UpperChars), Many(LowerChars), One({" "}), One(UpperChars),
        Many(LowerChars)>>>>
ZipPattern ==
    <<<<Item(UpperChars, 2, 2), Many(SpaceChars), Item(DigitChars, 5, 5),
        One({"-"}), Item(DigitChars, 4, 4)>>,
      <<Item(UpperChars, 2, 2), Many(SpaceChars), Item(DigitChars, 5, 5)>>>>

\* The patterns that LLMService.redactPII has besides: a group (?:a|b|c) of
\* literal words of a case-insensitive expression, and the end of an
\* expression that does not end with \b
Words(words) == [words |-> words]
NoBoundary == [open |-> TRUE]
NonSpaceChars == (AsciiChars \cup {"BULLET"}) \ SpaceChars

AddressPattern ==
    <<<<Item(DigitChars, 1, 5), Many(SpaceChars),
        Many(UpperChars \cup LowerChars \cup DigitChars \cup SpaceChars),
        Words(<<<<"s", "t", "r", "e", "e", "t">>, <<"s", "t">>,
                <<"a", "v", "e", "n", "u", "e">>, <<"a", "v", "e">>,
                <<"r", "o", "a", "d">>, <<"r", "d">>,
                <<"b", "o", "u", "l", "e", "v", "a", "r", "d">>,
                <<"b", "l", "v", "d">>, <<"l", "a", "n", "e">>, <<"l", "n">>,
                <<"d", "r", "i", "v", "e">>, <<"d", "r">>>>)>>>>
PasswordPattern ==
    <<<<Words(<<<<"p", "a", "s", "s", "w", "o", "r", "d">>,
                <<"p", "a", "s", "s", "w", "d">>, <<"p", "w", "d">>>>),
        Item(SpaceChars, 0, 0), One({":", "="}), Item(SpaceChars, 0, 0),
        Many(NonSpaceChars), NoBoundary>>>>
CredentialPattern ==
    <<<<Words(<<<<"t", "o", "k", "e", "n">>, <<"k", "e", "y">>,
                <<"s", "e", "c", "r", "e", "t">>>>),
        Item(SpaceChars, 0, 0), One({":", "="}), Item(SpaceChars, 0, 0),
        Many(NonSpaceChars), NoBoundary>>>>

\* \b before the character at pos: exactly one side is a word character
IsWordAt(text, i) == i \in 1 .. Len(text) /\ text[i] \in WordChars
Boundary(text, pos) == IsWordAt(text, pos - 1) # IsWordAt(text, pos)

\* Number of consecutive characters of a class from pos on
Run(text, pos, class) ==
    LET stops == {k \in pos .. Len(text) : text[k] \notin class}
    IN  IF stops = {} THEN Len(text) - pos + 1
        ELSE (CHOOSE k \in stops : \A j \in stops : k <= j) - pos

\* A literal word of a case-insensitive expression stands at pos
WordAt(text, pos, word) ==
    /\ pos + Len(word) - 1 <= Len(text)
    /\ toLowerCase(SubSeq(text, pos, pos + Len(word) - 1)) = word

\* The regular expression engine on items k.. from pos: the position after
\* the match (0 = no match), each item taking the most characters for which
\* the rest still matches, a group of words its first word for which the
\* rest still matches; the expression ends with \b unless its last item is
\* NoBoundary
RECURSIVE MatchItems(_, _, _, _)
MatchItems(text, pos, items, k) ==
    IF k > Len(items) THEN (IF Boundary(text, pos) THEN pos ELSE 0)
    ELSE IF "open" \in DOMAIN items[k] THEN pos
    ELSE IF "words" \in DOMAIN items[k]
    THEN LET words == items[k].words
             fits == {w \in 1 .. Len(words) :
                         /\ WordAt(text, pos, words[w])
                         /\ MatchItems(text, pos + Len(words[w]), items,
                                       k + 1) # 0}
         IN  IF fits = {} THEN 0
             ELSE MatchItems(text,
                     pos + Len(words[CHOOSE w \in fits :
                                        \A v \in fits : w <= v]),
                     items, k + 1)
    ELSE LET run == Run(text, pos, items[k].class)
             most == IF items[k].max = 0 THEN run ELSE Min(run, items[k].max)
             fits == {n \in items[k].min .. most :
                         MatchItems(text, pos + n, items, k + 1) # 0}
         IN  IF fits = {} THEN 0
             ELSE MatchItems(text,
                     pos + (CHOOSE n \in fits : \A m \in fits : m <= n),
                     items, k + 1)

\* The match of a pattern that starts at pos: its first alternative that
\* matches
MatchAt(text, pos, pattern) ==
    IF ~Boundary(text, pos) THEN 0
    ELSE LET found == {a \in 1 .. Len(pattern) :
                          MatchItems(text, pos, pattern[a], 1) # 0}
         IN  IF found = {} THEN 0
             ELSE MatchItems(text, pos,
                     pattern[CHOOSE a \in found : \A b \in found : a <= b], 1)

\* String.prototype.replace with a /g pattern: every match, left to right,
\* the search going on after each match
RECURSIVE replaceFrom(_, _, _, _)
replaceFrom(text, pos, pattern, replacement) ==
    IF pos > Len(text) THEN <<>>
    ELSE IF MatchAt(text, pos, pattern) # 0
    THEN replacement
         \o replaceFrom(text, MatchAt(text, pos, pattern), pattern, replacement)
    ELSE <<text[pos]>> \o replaceFrom(text, pos + 1, pattern, replacement)

replace(text, pattern, replacement) == replaceFrom(text, 1, pattern, replacement)

\* redactPIIFromTranscript: the six replacements in the order of the list
redactPIIFromTranscript(text) ==
    IF text = <<>> THEN text
    ELSE replace(replace(replace(replace(replace(replace(text,
            EmailPattern, <<"[", "E", "M", "A", "I", "L", "]">>),
            SsnPattern, <<"[", "S", "S", "N", "]">>),
            CardPattern, <<"[", "C", "A", "R", "D", "]">>),
            PhonePattern, <<"[", "P", "H", "O", "N", "E", "]">>),
            NamePattern, <<"[", "N", "A", "M", "E", "]">>),
            ZipPattern, <<"[", "Z", "I", "P", "]">>)

\* LLMService.redactPII: the nine replacements in the order of the list
redactPII(text) ==
    IF text = <<>> THEN text
    ELSE replace(replace(replace(replace(replace(replace(replace(replace(
         replace(text,
            EmailPattern, <<"[", "E", "M", "A", "I", "L", "]">>),
            SsnPattern, <<"[", "S", "S", "N", "]">>),
            CardPattern, <<"[", "C", "A", "R", "D", "]">>),
            PhonePattern, <<"[", "P", "H", "O", "N", "E", "]">>),
            NamePattern, <<"[", "N", "A", "M", "E", "]">>),
            AddressPattern,
            <<"[", "A", "D", "D", "R", "E", "S", "S", "]">>),
            ZipPattern, <<"[", "Z", "I", "P", "]">>),
            PasswordPattern,
            <<"[", "P", "A", "S", "S", "W", "O", "R", "D", "]">>),
            CredentialPattern,
            <<"[", "C", "R", "E", "D", "E", "N", "T", "I", "A", "L", "]">>)

----------------------------------------------------------------------------
\* LLMService

\* A JS value given as context: a string, or something that is not a string
Str(chars) == [isText |-> TRUE, chars |-> chars]
NotAString == [isText |-> FALSE, chars |-> <<>>]

ProviderNames == {"openai", "anthropic", "google"}
allowedPipelines == {"interview", "meeting", "jira", "confluence", "chat"}

maxCacheSize == 100
cacheTimeout == 300000
rateWindowMs == 60000
maxContextLength == 50000
maxSuggestions == 4
minSuggestionLength == 10
maxResponseItems == 10
maxSuggestionLength == 1000
maxUserPromptLength == 8000
\* LLMProvider's defaults: timeoutMs, and maxRetries of withRetry
timeoutMs == 30000
providerMaxRetries == 3
retryDelay == 1000

\* A wait of the same length before every attempt
backoffFixed(delay, attempt) == delay

\* The wait after the failure of an attempt, in both retry loops:
\* retryDelay * Math.pow(2, attempt - 1)
backoffDelay(delay, attempt) == delay * 2 ^ (attempt - 1)

\* checkRateLimit's maxRequests table
maxRequests(provider) ==
    CASE provider = "openai" -> 60
      [] provider = "anthropic" -> 30
      [] provider = "google" -> 60

\* validateInput
validateInput(context, pipeline) ==
    /\ context.isText
    /\ context.chars # <<>>
    /\ Len(context.chars) <= maxContextLength
    /\ pipeline \in allowedPipelines

\* The screen without the lower-casing of the text
detectExactCase(text) ==
    /\ text.isText
    /\ text.chars # <<>>
    /\ \/ \E k \in 1 .. Len(dangerousPatterns) :
             includes(text.chars, dangerousPatterns[k])
       \/ \E k \in 1 .. Len(blockedCommands) :
             includes(text.chars, blockedCommands[k])

\* detectPromptInjection: false for a non-string or empty value; otherwise a
\* dangerous pattern or a blocked command occurs in the lower-cased text
detectPromptInjection(text) ==
    /\ text.isText
    /\ text.chars # <<>>
    /\ LET lowerText == toLowerCase(text.chars)
       IN  \/ \E k \in 1 .. Len(dangerousPatterns) :
                  includes(lowerText, dangerousPatterns[k])
           \/ \E k \in 1 .. Len(blockedCommands) :
                  includes(lowerText, blockedCommands[k])

\* One round of hashString's loop on the 32-bit hash <<high 16 bits, low 16
\* bits>>: hash = ((hash << 5) - hash) + char, cut to 32 bits
HashStep(hash, code) ==
    LET low == hash[2] * 31 + code
        high == hash[1] * 31 + (low \div 65536)
    IN  <<high % 65536, low % 65536>>

RECURSIVE hashFrom(_, _)
hashFrom(hash, str) ==
    IF str = <<>> THEN hash
    ELSE hashFrom(HashStep(hash, CharCode(Head(str))), Tail(str))

\* hashString
hashString(str) == hashFrom(<<0, 0>>, str)

\* generateCacheKey: `${pipeline}_${hash}`
generateCacheKey(context, pipeline) == <<pipeline, hashString(context.chars)>>

\* The property names the object literal fallbacks inherits from
\* Object.prototype: fallbacks[name] is that member, a function or an
\* object, and is truthy
ObjectPrototypeKeys ==
    {"constructor", "toString", "toLocaleString", "valueOf", "hasOwnProperty",
     "isPrototypeOf", "propertyIsEnumerable", "__proto__",
     "__defineGetter__", "__defineSetter__", "__lookupGetter__",
     "__lookupSetter__"}

\* The inherited member that fallbacks[name] gives for such a name: a value
\* that is no list of suggestions, written as a list of the one text
\* [inherited]
InheritedMember ==
    <<<<"[", "i", "n", "h", "e", "r", "i", "t", "e", "d", "]">>>>

\* getFallbackSuggestions: fallbacks[pipeline] || fallbacks.interview
getFallbackSuggestions(pipeline) ==
    CASE pipeline = "interview" -> FallbackInterview
      [] pipeline = "meeting" -> FallbackMeeting
      [] pipeline = "jira" -> FallbackJira
      [] pipeline = "confluence" -> FallbackConfluence
      [] pipeline = "chat" -> FallbackChat
      [] pipeline \in ObjectPrototypeKeys -> InheritedMember
      [] OTHER -> FallbackInterview

\* getFallbackProvider
getFallbackProvider(currentProviderName) ==
    CASE currentProviderName = "openai" -> "anthropic"
      [] currentProviderName = "anthropic" -> "google"
      [] currentProviderName = "google" -> "openai"

\* line.replace(/^[-•*]\s*/, '')
StripBullet(line) ==
    IF line # <<>> /\ Head(line) \in {"-", "BULLET", "*"}
    THEN DropSpaces(Tail(line))
    ELSE line

RECURSIVE LeadingDigits(_)
LeadingDigits(line) ==
    IF line # <<>> /\ IsDigit(Head(line)) THEN 1 + LeadingDigits(Tail(line))
    ELSE 0

\* line.replace(/^\d+\.\s*/, '')
StripNumber(line) ==
    LET n == LeadingDigits(line)
    IN  IF n >= 1 /\ Len(line) > n /\ line[n + 1] = "."
        THEN DropSpaces(SubSeq(line, n + 2, Len(line)))
        ELSE line

RECURSIVE CleanLines(_)
CleanLines(lines) ==
    IF lines = <<>> THEN <<>>
    ELSE LET line == Head(lines)
             cleaned == trim(StripNumber(StripBullet(line)))
         IN  IF trim(line) # <<>> /\ cleaned # <<>>
                /\ Len(cleaned) > minSuggestionLength
             THEN <<cleaned>> \o CleanLines(Tail(lines))
             ELSE CleanLines(Tail(lines))

\* parseSuggestions: the cleaned lines longer than 10 characters, at most 4
parseSuggestions(response) ==
    LET all == CleanLines(splitLines(response))
    IN  SubSeq(all, 1, Min(Len(all), maxSuggestions))

\* validateResponse without the injection screen of the items
validateResponseUnscreened(items) ==
    /\ Len(items) <= maxResponseItems
    /\ \A i \in 1 .. Len(items) : Len(items[i]) <= maxSuggestionLength

\* validateResponse
validateResponse(items) ==
    /\ Len(items) <= maxResponseItems
    /\ \A i \in 1 .. Len(items) :
          /\ Len(items[i]) <= maxSuggestionLength
          /\ ~detectPromptInjection(Str(items[i]))

\* Length of the user prompt buildPrompt makes for a pipeline from a context
\* without profile, session or cached fields: the template's own text, and
\* the transcript where the template holds it
UserPromptLength(pipeline, context) ==
    CASE pipeline = "interview" -> 232 + Len(context.chars)
      [] pipeline = "meeting" -> 179 + Len(context.chars)
      [] pipeline = "jira" -> 186
      [] pipeline = "confluence" -> 167
      [] pipeline = "chat" -> 174

\* validatePrompt: both parts present, the system part (at most 382
\* characters here) within 2000 and the user part within 8000
validatePrompt(pipeline, context) ==
    UserPromptLength(pipeline, context) <= maxUserPromptLength

CacheIndex(cache, key) ==
    IF \E i \in 1 .. Len(cache) : cache[i].key = key
    THEN CHOOSE i \in 1 .. Len(cache) : cache[i].key = key
    ELSE 0

\* cacheResponse deleting the last key of the Map where the code deletes the
\* first
cacheResponseDropNewest(cache, key, response, timestamp) ==
    LET kept == IF Len(cache) >= maxCacheSize
                THEN SubSeq(cache, 1, Len(cache) - 1) ELSE cache
        at == CacheIndex(kept, key)
        entry == [key |-> key, response |-> response, timestamp |-> timestamp]
    IN  IF at = 0 THEN Append(kept, entry)
        ELSE [kept EXCEPT ![at] = entry]

\* cacheResponse: at maxCacheSize the first key of the Map is deleted; then
\* Map.set, which keeps the place of a key already present
cacheResponse(cache, key, response, timestamp) ==
    LET kept == IF Len(cache) >= maxCacheSize THEN Tail(cache) ELSE cache
        at == CacheIndex(kept, key)
        entry == [key |-> key, response |-> response, timestamp |-> timestamp]
    IN  IF at = 0 THEN Append(kept, entry)
        ELSE [kept EXCEPT ![at] = entry]

\* The lookup without the age check
CacheHitAnyAge(cache, key, useCache, time) ==
    /\ useCache
    /\ CacheIndex(cache, key) # 0

\* The cache lookup of getSuggestions: the entry of the key when it is
\* younger than cacheTimeout
CacheHit(cache, key, useCache, time) ==
    /\ useCache
    /\ CacheIndex(cache, key) # 0
    /\ time - cache[CacheIndex(cache, key)].timestamp < cacheTimeout

\* checkRateLimit: the provider's counter after the reset of an elapsed
\* window, and whether it is below the provider's quota
RateLimitAfter(limits, provider, time) ==
    IF time - limits[provider].resetTime > rateWindowMs
    THEN [limits EXCEPT ![provider] = [requests |-> 0, resetTime |-> time]]
    ELSE limits

checkRateLimit(limits, provider, time) ==
    RateLimitAfter(limits, provider, time)[provider].requests
        < maxRequests(provider)


\* No getSuggestions call is in flight
IdleCall == [pc |-> "idle", context |-> NotAString, pipeline |-> "",
             sessionId |-> 0, useCache |-> FALSE, provider |-> "null",
             tried |-> [p \in ProviderNames |-> 0], began |-> 0,
             prov |-> FALSE, sentAt |-> 0, processedContext |-> <<>>]

\* No getSuggestions call has returned yet
NoCallYet == [n |-> 0, context |-> NotAString, pipeline |-> "",
              sessionId |-> 0, useCache |-> FALSE, result |-> <<>>,
              calls |-> 0, hit |-> FALSE, valid |-> FALSE, prov |-> FALSE,
              began |-> 0, at |-> 0, ended |-> "none", text |-> <<>>,
              tried |-> [p \in ProviderNames |-> 0],
              provs |-> [p \in ProviderNames |-> FALSE], saved |-> <<>>,
              evicted |-> <<>>, evictedRead |-> FALSE]

\* No generate call has failed yet
NoError == [provider |-> "null", error |-> [status |-> 0, timeout |-> FALSE],
            attempt |-> 0]

\* LLMProvider.shouldRetry: a retryable status, or a message with 'timeout'
shouldRetry(error) ==
    error.status \in {429, 500, 502, 503, 504} \/ error.timeout

\* Generate calls sent to providers by a getSuggestions call (each provider's
\* count saturates at TriedCap)
CallsOf(call) ==
    call.tried["openai"] + call.tried["anthropic"] + call.tried["google"]

\* this.providers[provider] is set
Configured(provider) == provider \in ProviderNames /\ providers[provider]

\* Test or integration code sets this.providers[provider]
ConfigureProvider(provider) ==
    /\ ~providers[provider]
    /\ providers' = [providers EXCEPT ![provider] = TRUE]
    /\ UNCHANGED <<now, nowDays, dbVars, currentProvider, responseCache, rateLimits,
                   llmCall, llmLast, llmBegun, watched, sentNow, llmErr,
                   asrVars, appVars,
                   retryCall>>

\* setProvider: an unconfigured provider disables the service
setProvider(provider) ==
    /\ currentProvider' = IF Configured(provider) THEN provider ELSE "null"
    /\ currentProvider' # currentProvider
    /\ UNCHANGED <<now, nowDays, dbVars, providers, responseCache, rateLimits,
                   llmCall, llmLast, llmBegun, watched, sentNow, llmErr,
                   asrVars, appVars,
                   retryCall>>

\* getSuggestions returns: the call is observed and no call is in flight.
\* ended: the return statement taken ("invalid": the catch after
\* validateInput, "screen": the injection screen, "cache": the cache lookup,
\* "provider": after a provider's text, "guard": after the fallback text of
\* generateResponse's own checks); text: the text generateResponse gave;
\* saved: the contents written to the store; evicted: the key cacheResponse
\* deleted, if it deleted one; evictedRead: that key's entry served the call
\* that returned just before this one
Returns(call, result, hit, valid, ended, text, saved, evicted) ==
    /\ llmLast' = [n |-> llmLast.n + 1, context |-> call.context,
                   pipeline |-> call.pipeline, sessionId |-> call.sessionId,
                   useCache |-> call.useCache, result |-> result,
                   calls |-> CallsOf(call), hit |-> hit, valid |-> valid,
                   prov |-> call.prov, began |-> call.began, at |-> now,
                   ended |-> ended, text |-> text, tried |-> call.tried,
                   provs |-> providers, saved |-> saved,
                   evicted |-> evicted,
                   evictedRead |->
                       /\ evicted # <<>>
                       /\ llmLast.hit
                       /\ generateCacheKey(llmLast.context, llmLast.pipeline)
                              = evicted[1]]
    /\ llmCall' = IdleCall

\* getSuggestions from the text generateResponse gave (lines 174-199): parse,
\* validate, cache, save each suggestion, return; an invalid list and a
\* throwing addSuggestion both end in the fallback list
Complete(call, text, ended) ==
    LET parsed == parseSuggestions(text)
        valid == validateResponse(parsed)
        key == generateCacheKey(call.context, call.pipeline)
        saves == valid /\ call.sessionId # 0 /\ parsed # <<>>
        throws == saves /\ ~(dbOpen /\ ForeignKeyOk(call.sessionId))
    IN  /\ responseCache' =
              IF valid /\ call.useCache
              THEN cacheResponse(responseCache, key, parsed, now)
              ELSE responseCache
        /\ suggestions' =
              IF saves /\ ~throws
              THEN addSuggestionRows(suggestions, call.sessionId,
                                     call.pipeline, parsed)
              ELSE suggestions
        /\ Returns(call,
                   IF valid /\ ~throws THEN parsed
                   ELSE getFallbackSuggestions(call.pipeline),
                   FALSE, valid, ended, text,
                   IF saves /\ ~throws THEN parsed ELSE <<>>,
                   IF valid /\ call.useCache
                         /\ Len(responseCache) >= maxCacheSize
                   THEN <<responseCache[1].key>> ELSE <<>>)

\* generateResponse for a provider (lines 202-245) up to its first await:
\* without a configured provider, over the rate limit or with an invalid
\* prompt it returns the joined fallback list; otherwise the provider's
\* generate call is sent and awaited
Generate(call, provider) ==
    IF ~Configured(provider)
    THEN /\ Complete(call, joinLines(getFallbackSuggestions(call.pipeline)),
                     "guard")
         /\ UNCHANGED <<rateLimits, sentNow,
                   retryCall>>
    ELSE /\ rateLimits' = RateLimitAfter(rateLimits, provider, now)
         /\ IF /\ checkRateLimit(rateLimits, provider, now)
               /\ validatePrompt(call.pipeline, Str(call.processedContext))
            THEN /\ llmCall' = [call EXCEPT
                        !.pc = "awaiting", !.provider = provider,
                        !.tried[provider] = Min(@ + 1, TriedCap),
                        !.sentAt = now]
                 /\ sentNow' = IF provider = watched
                                THEN Min(sentNow + 1, maxRequests(provider) + 1)
                                ELSE sentNow
                 /\ UNCHANGED <<llmLast, responseCache, suggestions,
                   retryCall>>
            ELSE /\ Complete(call,
                        joinLines(getFallbackSuggestions(call.pipeline)),
                        "guard")
                 /\ UNCHANGED sentNow

\* getSuggestions (lines 133-172) up to the provider's generate call:
\* validation, the injection screen, the cache lookup, the redaction of the
\* context (redactPII is left at its default, true), then generateResponse
\* for the current provider.  cap bounds the calls begun.
getSuggestions(cap, context, pipeline, sessionId, useCache) ==
    /\ llmCall.pc = "idle"
    /\ llmBegun < cap
    /\ llmBegun' = llmBegun + 1
    /\ LET key == generateCacheKey(context, pipeline)
           call == [pc |-> "idle", context |-> context, pipeline |-> pipeline,
                    sessionId |-> sessionId, useCache |-> useCache,
                    provider |-> currentProvider,
                    tried |-> [p \in ProviderNames |-> 0], began |-> now,
                    prov |-> Configured(currentProvider), sentAt |-> 0,
                    processedContext |-> <<>>]
       IN  IF ~validateInput(context, pipeline)
           THEN /\ Returns(call, getFallbackSuggestions(pipeline), FALSE, FALSE,
                           "invalid", <<>>, <<>>, <<>>)
                /\ UNCHANGED <<responseCache, rateLimits, sentNow, suggestions,
                   retryCall>>
           ELSE IF detectPromptInjection(context)
           THEN /\ Returns(call, getFallbackSuggestions(pipeline), FALSE, FALSE,
                           "screen", <<>>, <<>>, <<>>)
                /\ UNCHANGED <<responseCache, rateLimits, sentNow, suggestions,
                   retryCall>>
           ELSE IF CacheHit(responseCache, key, useCache, now)
           THEN /\ Returns(call,
                     responseCache[CacheIndex(responseCache, key)].response,
                     TRUE, FALSE, "cache", <<>>, <<>>, <<>>)
                /\ UNCHANGED <<responseCache, rateLimits, sentNow, suggestions,
                   retryCall>>
           ELSE Generate([call EXCEPT
                              !.processedContext = redactPII(context.chars)],
                         currentProvider)
    /\ UNCHANGED <<now, nowDays, dbOpen, inMemory, keytarOn, keychain, keyFile,
                   encryptionKey, keysMade, sessions, nextSessionId,
                   transcripts, actions, integrations, profiles, metrics,
                   context_cache, dbLast, providers, currentProvider,
                   watched, llmErr, asrVars, appVars,
                   retryCall>>

\* The awaited generate call resolves with a response text
ProviderReturns(text) ==
    /\ llmCall.pc = "awaiting"
    /\ Complete(llmCall, text, "provider")
    /\ UNCHANGED <<now, nowDays, dbOpen, inMemory, keytarOn, keychain, keyFile,
                   encryptionKey, keysMade, sessions, nextSessionId,
                   transcripts, actions, integrations, profiles, metrics,
                   context_cache, dbLast, providers, currentProvider,
                   rateLimits, llmBegun, watched, sentNow, llmErr, asrVars, appVars,
                   retryCall>>

\* The awaited generate call throws an error: generateResponse's catch
\* (lines 235-244) calls generateResponse again for
\* getFallbackProvider(provider), whatever the error
ProviderThrows(error) ==
    /\ llmCall.pc = "awaiting"
    /\ llmErr' = [provider |-> llmCall.provider, error |-> error,
                  attempt |-> llmCall.tried[llmCall.provider]]
    /\ Generate(llmCall, getFallbackProvider(llmCall.provider))
    /\ UNCHANGED <<now, nowDays, dbOpen, inMemory, keytarOn, keychain, keyFile,
                   encryptionKey, keysMade, sessions, nextSessionId,
                   transcripts, actions, integrations, profiles, metrics,
                   context_cache, dbLast, providers, currentProvider,
                   llmBegun, watched, asrVars, appVars,
                   retryCall>>

\* The clock of SpecLLM moves on by 100 seconds
LlmTick(ticks) ==
    /\ now < ticks * LlmTickMs
    /\ now' = now + LlmTickMs
    /\ sentNow' = 0
    /\ UNCHANGED <<nowDays, dbVars, providers, currentProvider, responseCache,
                   rateLimits, llmCall, llmLast, llmBegun, watched, llmErr,
                   asrVars, appVars,
                   retryCall>>

\* LLMProvider.withRetry(operation).  The operation is a backend: each
\* invocation is a suspension point that ends when the operation resolves,
\* rejects, or the timer of withTimeout rejects with 'Request timeout'.
\* A rejection value is {name, status, timeout, message}: timeout says that
\* its message includes 'timeout', message that it has a message at all
IdleRetry == [pc |-> "idle", calls |-> 0, attempt |-> 0, invocations |-> 0,
              sentAt |-> 0, errors |-> <<>>, thrown |-> Null, waits |-> <<>>]

\* new Error('Request timeout') of withTimeout
RequestTimeout ==
    [name |-> "Error", status |-> 0, timeout |-> TRUE, message |-> TRUE]

\* The TypeError of reading 'includes' of an undefined message
IncludesOfUndefined ==
    [name |-> "TypeError", status |-> 0, timeout |-> FALSE, message |-> TRUE]

\* The rejections of an operation: rate limit, server error, bad request,
\* and a rejection value that is no Error and has no message
OperationErrors ==
    {[name |-> "Error", status |-> 429, timeout |-> FALSE, message |-> TRUE],
     [name |-> "Error", status |-> 503, timeout |-> FALSE, message |-> TRUE],
     [name |-> "Error", status |-> 400, timeout |-> FALSE, message |-> TRUE],
     [name |-> "Object", status |-> 400, timeout |-> FALSE, message |-> FALSE]}

\* shouldRetry throws: the status is not retryable and error.message, whose
\* includes is called next, is undefined
shouldRetryThrows(error) ==
    error.status \notin {429, 500, 502, 503, 504} /\ ~error.message

retryFrame == <<nowDays, dbVars, providers, currentProvider, responseCache,
                rateLimits, llmCall, llmLast, llmBegun, watched, sentNow,
                llmErr, asrVars, appVars>>

\* The call begins: attempt = 1 and the operation is invoked
withRetry(maxCalls) ==
    /\ retryCall.pc \in {"idle", "returned", "threw"}
    /\ retryCall.calls < maxCalls
    /\ retryCall' = [pc |-> "awaiting", calls |-> retryCall.calls + 1,
                     attempt |-> 1, invocations |-> 1, sentAt |-> now,
                     errors |-> <<>>, thrown |-> Null, waits |-> <<>>]
    /\ UNCHANGED <<now, retryFrame>>

\* The catch block of the loop for the error of the current attempt: sleep
\* before the next attempt, or throw (the error, or what shouldRetry threw)
Caught(error) ==
    LET more == retryCall.attempt < providerMaxRetries
        errors == Append(retryCall.errors, error)
    IN  IF more /\ shouldRetryThrows(error)
        THEN [retryCall EXCEPT !.pc = "threw", !.errors = errors,
                               !.thrown = Some(IncludesOfUndefined)]
        ELSE IF more /\ shouldRetry(error)
        THEN [retryCall EXCEPT !.pc = "sleeping", !.errors = errors]
        ELSE [retryCall EXCEPT !.pc = "threw", !.errors = errors,
                               !.thrown = Some(error)]

\* The operation resolves: withRetry returns its value
OperationReturns ==
    /\ retryCall.pc = "awaiting"
    /\ retryCall' = [retryCall EXCEPT !.pc = "returned"]
    /\ UNCHANGED <<now, retryFrame>>

\* The operation rejects
OperationThrows(error) ==
    /\ retryCall.pc = "awaiting"
    /\ retryCall' = Caught(error)
    /\ UNCHANGED <<now, retryFrame>>

\* The timer of withTimeout fires before the operation settles
OperationTimesOut ==
    /\ retryCall.pc = "awaiting"
    /\ now' = retryCall.sentAt + timeoutMs
    /\ retryCall' = Caught(RequestTimeout)
    /\ UNCHANGED retryFrame

\* sleep(retryDelay * 2^(attempt - 1)) ends: the next attempt invokes the
\* operation (waits lists the sleeps of the call)
SleepEnds ==
    /\ retryCall.pc = "sleeping"
    /\ now' = now + backoffDelay(retryDelay, retryCall.attempt)
    /\ retryCall' = [retryCall EXCEPT !.pc = "awaiting",
                                      !.attempt = retryCall.attempt + 1,
                                      !.invocations = retryCall.invocations + 1,
                                      !.sentAt = now',
                                      !.waits = Append(@, now' - now)]
    /\ UNCHANGED retryFrame

\* The service after its constructor
InitLLM ==
    /\ providers = [p \in ProviderNames |-> FALSE]
    /\ currentProvider = "openai"
    /\ responseCache = <<>>
    /\ rateLimits = [p \in ProviderNames |-> [requests |-> 0, resetTime |-> 0]]
    /\ llmCall = IdleCall
    /\ llmLast = NoCallYet
    /\ llmBegun = 0
    /\ watched = "null"
    /\ sentNow = 0
    /\ llmErr = NoError
    /\ retryCall = IdleRetry

----------------------------------------------------------------------------
\* ASRService

confidenceThreshold == 70    \* 0.7, confidences counted in hundredths
sampleRate == 16000
maxRetries == 3
asrRetryDelay == 1000
maxConsecutiveErrors == 5
retentionDays == 30

\* A sequence without its i-th element
RemoveAt(seq, i) == SubSeq(seq, 1, i - 1) \o SubSeq(seq, i + 1, Len(seq))

\* The elements of a sequence
Range(seq) == {seq[i] : i \in 1 .. Len(seq)}

NoTranscriptYet == [seen |-> FALSE, text |-> <<>>, confidence |-> 0,
                    emitted |-> FALSE, persisted |-> FALSE, prev |-> <<>>]

\* The store's variables that ASRService never writes
asrFrame == <<now, nowDays, dbOpen, inMemory, keytarOn, keychain, keyFile,
              encryptionKey, keysMade, sessions, nextSessionId, suggestions,
              actions, integrations, profiles, metrics, context_cache, dbLast>>

\* initialize: the flag is set, then DatabaseService.initialize runs (a
\* failure of it is rethrown with the flag set)
AsrInitialize(readFail, openFail) ==
    /\ ~isInitialized
    /\ isInitialized' = TRUE
    /\ initialize(readFail, openFail)
    /\ UNCHANGED <<llmVars, appVars, isRecording, audioBuffer, currentSessionId,
                   streamingInterval, lastTranscript, consecutiveErrors,
                   passes, chunksMade, passesBegun, heard, lost,
                   breakerEvents, asrLast, lastRaw, skipped, calls, asrCall,
                   timers, asrStarts>>

\* No interval timer runs and this.streamingInterval is null.  A timer is
\* named by a positive number; handle is the one this.streamingInterval
\* names (0: null), active the timers set and not cleared
NoTimers == [handle |-> 0, active |-> {}]

\* this.streamingInterval = setInterval(...): a new timer runs and the
\* field names it; the timer it named before is not cleared
SetTimer(t) ==
    LET used == t.active \cup {t.handle}
        id == CHOOSE n \in 1 .. Cardinality(used) + 1 :
                 /\ n \notin used
                 /\ \A k \in 1 .. n - 1 : k \in used
    IN  [handle |-> id, active |-> t.active \cup {id}]

\* if (this.streamingInterval) { clearInterval(this.streamingInterval);
\* this.streamingInterval = null }
ClearTimer(t) ==
    IF t.handle = 0 THEN t
    ELSE [handle |-> 0, active |-> t.active \ {t.handle}]

\* No startSession, stopSession or cleanup call has returned yet
NoAsrCall == [op |-> "none", returned |-> "none", event |-> "none"]

\* The outcome of a startSession or stopSession call: how it returned
\* ("true", "false", "undefined" or "throws") and the event it emitted
AsrCall(op, returned, event) ==
    [op |-> op, returned |-> returned, event |-> event]

\* startSession: on a service that is not initialized the state event
\* 'disabled' is emitted and false returned; otherwise a recording session
\* is stopped first; captureFail: startAudioCapture throws, session-error is
\* emitted and the error rethrown
startSession(sessionId, captureFail) ==
    /\ IF ~isInitialized
       THEN /\ asrCall' = AsrCall("startSession", "false", "state")
            /\ UNCHANGED <<consecutiveErrors, currentSessionId, audioBuffer,
                           lastTranscript, isRecording, streamingInterval,
                           breakerEvents, lastRaw, timers>>
       ELSE /\ consecutiveErrors' = 0
            /\ currentSessionId' = sessionId
            /\ audioBuffer' = <<>>
            /\ lastTranscript' = <<>>
            /\ isRecording' = ~captureFail
            /\ streamingInterval' =
                  IF captureFail THEN (streamingInterval /\ ~isRecording)
                  ELSE TRUE
            /\ timers' =
                  LET stopped == IF isRecording THEN ClearTimer(timers)
                                 ELSE timers
                  IN  IF captureFail THEN stopped ELSE SetTimer(stopped)
            /\ breakerEvents' = 0
            /\ lastRaw' = <<>>
            /\ asrCall' =
                  IF captureFail
                  THEN AsrCall("startSession", "throws", "session-error")
                  ELSE AsrCall("startSession", "true", "session-started")
    /\ UNCHANGED <<asrFrame, transcripts, llmVars, appVars, isInitialized, passes,
                   chunksMade, passesBegun, heard, lost, asrLast, skipped,
                   calls, asrStarts>>

\* stopSession without its early return, dropping the buffered audio on
\* every call
stopSessionDropping ==
    /\ isRecording' = FALSE
    /\ streamingInterval' = FALSE
    /\ timers' = ClearTimer(timers)
    /\ audioBuffer' = <<>>
    /\ asrCall' = AsrCall("stopSession", "true", "none")
    /\ UNCHANGED <<asrFrame, transcripts, llmVars, appVars, isInitialized,
                   currentSessionId, lastTranscript, consecutiveErrors, passes,
                   chunksMade, passesBegun, heard, lost, breakerEvents,
                   asrLast, lastRaw, skipped, calls, asrStarts>>

\* stopSession: without a recording session it returns at once; otherwise
\* the timer is cleared and the remaining buffer goes to processAudioBuffer,
\* which returns at once because isRecording is already false
stopSession ==
    /\ IF isRecording
       THEN /\ isRecording' = FALSE
            /\ streamingInterval' = FALSE
            /\ timers' = ClearTimer(timers)
            /\ asrCall' = AsrCall("stopSession", "true", "none")
       ELSE /\ UNCHANGED <<isRecording, streamingInterval, timers>>
            /\ asrCall' = AsrCall("stopSession", "undefined", "none")
    /\ UNCHANGED <<asrFrame, transcripts, llmVars, appVars, isInitialized, audioBuffer,
                   currentSessionId, lastTranscript, consecutiveErrors, passes,
                   chunksMade, passesBegun, heard, lost, breakerEvents,
                   asrLast, lastRaw, skipped, calls, asrStarts>>

\* The variables no session call of ASRService writes
asrCallFrame == <<asrFrame, transcripts, llmVars, appVars, passes, chunksMade,
                  passesBegun, heard, lost, asrLast, skipped, calls>>

\* The fields startSession sets for its session (lines 91-96)
SessionFieldsSet(sessionId) ==
    /\ consecutiveErrors' = 0
    /\ currentSessionId' = sessionId
    /\ isRecording' = TRUE
    /\ audioBuffer' = <<>>
    /\ lastTranscript' = <<>>
    /\ breakerEvents' = 0
    /\ lastRaw' = <<>>

\* startSession on an initialized service up to its first await, for a
\* caller that does not await the calls it made before.  On a recording
\* service that is the await of stopSession, which has set isRecording and
\* cleared the timer before its own await of stopAudioCapture; otherwise
\* the fields are set and startAudioCapture awaited.  maxStarts bounds the
\* calls suspended at once, maxTimers the timers they can bring to run
StartSessionBegins(sessionId, maxStarts, maxTimers) ==
    /\ isInitialized
    /\ Len(asrStarts) < maxStarts
    /\ Cardinality(timers.active) + Len(asrStarts) < maxTimers
    /\ IF isRecording
       THEN /\ isRecording' = FALSE
            /\ streamingInterval' = FALSE
            /\ timers' = ClearTimer(timers)
            /\ asrStarts' = Append(asrStarts, [sessionId |-> sessionId,
                                               pc |-> "stopping"])
            /\ UNCHANGED <<consecutiveErrors, currentSessionId, audioBuffer,
                           lastTranscript, breakerEvents, lastRaw>>
       ELSE /\ SessionFieldsSet(sessionId)
            /\ asrStarts' = Append(asrStarts, [sessionId |-> sessionId,
                                               pc |-> "capturing"])
            /\ UNCHANGED <<streamingInterval, timers>>
    /\ UNCHANGED <<asrCallFrame, isInitialized, asrCall>>

\* The i-th suspended startSession call resumes.  After stopSession (whose
\* processAudioBuffer has nothing to do on an empty buffer) the fields are
\* set and startAudioCapture awaited; after startAudioCapture the timer is
\* set with startStreamingTranscription and true returned, or, captureFail,
\* isRecording is reset and the error rethrown
StartSessionResumes(i, captureFail) ==
    /\ i \in 1 .. Len(asrStarts)
    /\ IF asrStarts[i].pc = "stopping"
       THEN /\ audioBuffer = <<>>
            /\ ~captureFail
            /\ SessionFieldsSet(asrStarts[i].sessionId)
            /\ asrStarts' = [asrStarts EXCEPT ![i].pc = "capturing"]
            /\ UNCHANGED <<streamingInterval, timers, asrCall>>
       ELSE /\ asrStarts' = RemoveAt(asrStarts, i)
            /\ IF captureFail
               THEN /\ isRecording' = FALSE
                    /\ asrCall' = AsrCall("startSession", "throws",
                                          "session-error")
                    /\ UNCHANGED <<streamingInterval, timers>>
               ELSE /\ streamingInterval' = TRUE
                    /\ timers' = SetTimer(timers)
                    /\ asrCall' = AsrCall("startSession", "true",
                                          "session-started")
                    /\ UNCHANGED isRecording
            /\ UNCHANGED <<consecutiveErrors, currentSessionId, audioBuffer,
                           lastTranscript, breakerEvents, lastRaw>>
    /\ UNCHANGED <<asrCallFrame, isInitialized>>

\* cleanup (lines 479-490): a recording session is stopped; the timer
\* this.streamingInterval names is cleared and the field left as it is; the
\* service is no longer initialized
cleanup ==
    /\ isRecording' = FALSE
    /\ streamingInterval' = IF isRecording THEN FALSE ELSE streamingInterval
    /\ timers' =
          LET stopped == IF isRecording THEN ClearTimer(timers) ELSE timers
          IN  [stopped EXCEPT !.active = @ \ {stopped.handle}]
    /\ isInitialized' = FALSE
    /\ asrCall' = AsrCall("cleanup", "undefined", "none")
    /\ UNCHANGED <<asrCallFrame, consecutiveErrors, currentSessionId,
                   audioBuffer, lastTranscript, breakerEvents, lastRaw,
                   asrStarts>>

\* The capture producer appends one chunk of samples to the buffer
AppendAudio(maxChunks) ==
    /\ isRecording
    /\ chunksMade < maxChunks
    /\ chunksMade' = chunksMade + 1
    /\ audioBuffer' = Append(audioBuffer, chunksMade + 1)
    /\ calls' = Append(calls, 0)
    /\ UNCHANGED <<asrFrame, transcripts, llmVars, appVars, isInitialized, isRecording,
                   currentSessionId, streamingInterval, lastTranscript,
                   consecutiveErrors, passes, passesBegun, heard, lost,
                   breakerEvents, asrLast, lastRaw, skipped, asrCall, timers, asrStarts>>

\* The count of transcribeAudio calls per chunk after one more call that
\* carries the chunks of audioData (each count saturates at CallCap)
CallsAfter(audioData) ==
    [c \in 1 .. Len(calls) |->
        IF c \in Range(audioData) THEN Min(calls[c] + 1, CallCap)
        ELSE calls[c]]

\* A tick of the streaming timer: processAudioBuffer up to its await of the
\* transcriber.  The buffer is copied, not cleared; a buffer under half a
\* second of samples ends the pass without a call
TimerTick(maxPasses, maxInFlight) ==
    /\ streamingInterval
    /\ isRecording
    /\ audioBuffer # <<>>
    /\ Len(audioBuffer) * ChunkSamples >= sampleRate \div 2
    /\ passesBegun < maxPasses
    /\ Len(passes) < maxInFlight
    /\ passes' = Append(passes, [snapshot |-> audioBuffer, attempt |-> 1,
                                 session |-> currentSessionId,
                                 waits |-> <<>>])
    /\ passesBegun' = passesBegun + 1
    /\ heard' = heard \cup Range(audioBuffer)
    /\ calls' = CallsAfter(audioBuffer)
    /\ UNCHANGED <<asrFrame, transcripts, llmVars, appVars, isInitialized, isRecording,
                   audioBuffer, currentSessionId, streamingInterval,
                   lastTranscript, consecutiveErrors, chunksMade, lost,
                   breakerEvents, asrLast, lastRaw, skipped, asrCall, timers, asrStarts>>

\* A tick of the streaming timer on a buffer under half a second of samples:
\* processAudioBuffer returns at the minimum-length check (lines 191-193)
SkipTick(maxSkips) ==
    /\ streamingInterval
    /\ isRecording
    /\ audioBuffer # <<>>
    /\ Len(audioBuffer) * ChunkSamples < sampleRate \div 2
    /\ skipped < maxSkips
    /\ skipped' = skipped + 1
    /\ UNCHANGED <<asrFrame, transcripts, llmVars, appVars, isInitialized, isRecording,
                   audioBuffer, currentSessionId, streamingInterval,
                   lastTranscript, consecutiveErrors, passes, chunksMade,
                   passesBegun, heard, lost, breakerEvents, asrLast, lastRaw,
                   calls, asrCall, timers, asrStarts>>

\* The catch of processAudioBuffer for pass i: the counter goes up; at
\* maxConsecutiveErrors session-error is emitted and stopSession called
CatchPass(i) ==
    LET trips == consecutiveErrors + 1 >= maxConsecutiveErrors
    IN  /\ consecutiveErrors' = consecutiveErrors + 1
        /\ breakerEvents' = IF trips THEN breakerEvents + 1 ELSE breakerEvents
        /\ isRecording' = IF trips THEN FALSE ELSE isRecording
        /\ streamingInterval' =
              IF trips /\ isRecording THEN FALSE ELSE streamingInterval
        /\ timers' =
              IF trips /\ isRecording THEN ClearTimer(timers) ELSE timers
        /\ passes' = RemoveAt(passes, i)

\* transcribeAudio rejects for pass i: transcribeAudioWithRetry sleeps and
\* calls again until maxRetries attempts are used, then throws into the
\* catch (waits lists the sleeps of the pass; the clock of the
\* transcription session is not kept)
TranscriberThrows(i) ==
    /\ i \in 1 .. Len(passes)
    /\ IF passes[i].attempt < maxRetries
       THEN /\ passes' =
                 [passes EXCEPT
                    ![i].attempt = @ + 1,
                    ![i].waits =
                        Append(@, backoffDelay(asrRetryDelay,
                                               passes[i].attempt))]
            /\ calls' = CallsAfter(passes[i].snapshot)
            /\ UNCHANGED <<consecutiveErrors, breakerEvents, isRecording,
                           streamingInterval, timers>>
       ELSE /\ CatchPass(i)
            /\ UNCHANGED calls
    /\ UNCHANGED <<asrFrame, transcripts, llmVars, appVars, isInitialized, audioBuffer,
                   currentSessionId, lastTranscript, chunksMade, passesBegun,
                   heard, lost, asrLast, lastRaw, skipped, asrCall, asrStarts>>

\* handleTranscript emitting whatever it accepted
EmitsAccepted(accepts, throws) == accepts

\* handleTranscript reaches its emit (lines 288-293) for a result it accepted
\* unless addTranscript, awaited before, threw
EmitsTranscript(accepts, throws) ==
    accepts /\ ~throws

\* transcribeAudio resolves for pass i with null or with a text and a
\* confidence: handleTranscript for a text that is not blank (gate, compare
\* with lastTranscript, redact, addTranscript, emit), the counter reset, and
\* the clear of the buffer; addTranscript throwing goes to the catch
TranscriberReturns(i, result) ==
    /\ i \in 1 .. Len(passes)
    /\ LET has == result # Null /\ trim(result[1].text) # <<>>
           text == result[1].text
           confidence == result[1].confidence
           accepts == /\ has
                      /\ confidence >= confidenceThreshold
                      /\ text # lastTranscript
           saves == accepts /\ currentSessionId # 0
           throws == saves /\ ~(dbOpen /\ ForeignKeyOk(currentSessionId))
           processedText == redactPIIFromTranscript(text)
       IN  /\ asrLast' =
                 IF has
                 THEN [seen |-> TRUE, text |-> text, confidence |-> confidence,
                       emitted |-> EmitsTranscript(accepts, throws),
                       persisted |-> saves /\ ~throws, prev |-> lastRaw]
                 ELSE asrLast
           /\ IF throws
              THEN /\ CatchPass(i)
                   /\ UNCHANGED <<transcripts, lastTranscript, lastRaw,
                                  audioBuffer, lost>>
              ELSE /\ transcripts' =
                         IF saves
                         THEN addTranscriptRows(transcripts, currentSessionId,
                                                processedText, confidence)
                         ELSE transcripts
                   /\ lastTranscript' =
                         IF accepts THEN processedText ELSE lastTranscript
                   /\ lastRaw' = IF accepts THEN text ELSE lastRaw
                   /\ consecutiveErrors' = IF has THEN 0 ELSE consecutiveErrors
                   /\ audioBuffer' = <<>>
                   /\ lost' = lost \cup (Range(audioBuffer) \ heard)
                   /\ passes' = RemoveAt(passes, i)
                   /\ UNCHANGED <<breakerEvents, isRecording,
                                  streamingInterval, timers>>
    /\ UNCHANGED <<asrFrame, llmVars, appVars, isInitialized, currentSessionId,
                   chunksMade, passesBegun, heard, skipped, calls, asrCall, asrStarts>>

\* cleanupOldTranscripts, run by the hourly timer of startCleanupTask: the
\* cutoff date is computed and a line logged; no statement deletes a row
cleanupOldTranscripts ==
    /\ isInitialized
    /\ asrCall' = AsrCall("cleanupOldTranscripts", "undefined", "none")
    /\ UNCHANGED <<asrFrame, transcripts, llmVars, appVars, isInitialized,
                   isRecording, audioBuffer, currentSessionId,
                   streamingInterval, lastTranscript, consecutiveErrors,
                   passes, chunksMade, passesBegun, heard, lost,
                   breakerEvents, asrLast, lastRaw, skipped, calls, timers, asrStarts>>

\* The clock moves on by a number of days
DayTick(days, ticks) ==
    /\ nowDays < ticks * days
    /\ nowDays' = nowDays + days
    /\ UNCHANGED <<now, dbVars, llmVars, asrVars, appVars>>

\* The service after its constructor
InitASR ==
    /\ isInitialized = FALSE
    /\ isRecording = FALSE
    /\ audioBuffer = <<>>
    /\ currentSessionId = 0
    /\ streamingInterval = FALSE
    /\ lastTranscript = <<>>
    /\ consecutiveErrors = 0
    /\ passes = <<>>
    /\ chunksMade = 0
    /\ passesBegun = 0
    /\ heard = {}
    /\ lost = {}
    /\ breakerEvents = 0
    /\ asrLast = NoTranscriptYet
    /\ lastRaw = <<>>
    /\ skipped = 0
    /\ calls = <<>>
    /\ asrCall = NoAsrCall
    /\ timers = NoTimers
    /\ asrStarts = <<>>

----------------------------------------------------------------------------
\* EchoApp: the orchestrator of main.js

\* No EchoApp call has returned yet
NoAppCall == [op |-> "none", returned |-> Null, sessionId |-> 0,
              threw |-> FALSE]

\* The outcome of an EchoApp call: the value it resolved with (null for
\* undefined), the session it was about, whether it rejected
AppCall(op, returned, sessionId, threw) ==
    [op |-> op, returned |-> returned, sessionId |-> sessionId,
     threw |-> threw]

\* The fields of ASRService that its startSession and stopSession write
asrSessionVars == <<consecutiveErrors, currentSessionId, audioBuffer,
                    lastTranscript, isRecording, streamingInterval,
                    breakerEvents, lastRaw, asrCall, timers>>

\* The variables an EchoApp session call never writes
appFrame == <<now, nowDays, dbOpen, inMemory, keytarOn, keychain, keyFile,
              encryptionKey, keysMade, transcripts, suggestions, actions,
              integrations, profiles, metrics, context_cache, providers,
              currentProvider, responseCache, llmCall, llmLast, llmBegun,
              watched, sentNow, llmErr, retryCall, isInitialized, passes,
              chunksMade, passesBegun, heard, lost, asrLast, skipped, calls,
              asrStarts>>

\* ASRService.stopSession as EchoApp.stopSession calls it
AsrStops ==
    /\ isRecording' = FALSE
    /\ streamingInterval' = IF isRecording THEN FALSE ELSE streamingInterval
    /\ timers' = IF isRecording THEN ClearTimer(timers) ELSE timers
    /\ asrCall' = AsrCall("stopSession",
                          IF isRecording THEN "true" ELSE "undefined", "none")
    /\ UNCHANGED <<consecutiveErrors, currentSessionId, audioBuffer,
                   lastTranscript, breakerEvents, lastRaw>>

\* The rest of EchoApp.startSession after its stopSession (lines 414-443):
\* createSession, this.currentSession, ASRService.startSession on a service
\* that is recording or not (wasRecording) with or without a timer (timer,
\* and the running timers in set), then the
\* return of this.currentSession; a throwing ASRService.startSession is
\* rethrown with this.currentSession and the row left as they are
AppCreates(rows, wasRecording, timer, set, captureFail) ==
    LET sessionId == nextSessionId
    IN  /\ sessions' = rows \cup {SessionRow(sessionId)}
        /\ nextSessionId' = nextSessionId + 1
        /\ dbLast' = NoObs
        /\ currentSession' = sessionId
        /\ IF ~isInitialized
           THEN /\ asrCall' = AsrCall("startSession", "false", "state")
                /\ isRecording' = wasRecording
                /\ streamingInterval' = timer
                /\ timers' = set
                /\ UNCHANGED <<consecutiveErrors, currentSessionId,
                               audioBuffer, lastTranscript, breakerEvents,
                               lastRaw>>
           ELSE /\ consecutiveErrors' = 0
                /\ currentSessionId' = sessionId
                /\ audioBuffer' = <<>>
                /\ lastTranscript' = <<>>
                /\ isRecording' = ~captureFail
                /\ streamingInterval' =
                      IF captureFail
                      THEN (IF wasRecording THEN FALSE ELSE timer)
                      ELSE TRUE
                /\ timers' =
                      LET stopped == IF wasRecording THEN ClearTimer(set)
                                     ELSE set
                      IN  IF captureFail THEN stopped ELSE SetTimer(stopped)
                /\ breakerEvents' = 0
                /\ lastRaw' = <<>>
                /\ asrCall' =
                      IF captureFail
                      THEN AsrCall("startSession", "throws", "session-error")
                      ELSE AsrCall("startSession", "true", "session-started")
        /\ appLast' =
              IF isInitialized /\ captureFail
              THEN AppCall("startSession", Null, sessionId, TRUE)
              ELSE AppCall("startSession", Some([id |-> sessionId]),
                           sessionId, FALSE)

\* EchoApp.stopSession up to its await of generateSessionSummary (lines
\* 446-459): ASRService.stopSession, updateSession with the ISO string of
\* the clock; with a configured provider the summary is awaited from it (the
\* call is kept in appStops, inner: it was made by startSession), without
\* one generateResponse answers at once and the call is completed.
\* maxStops bounds the calls awaiting at once
AppStopBegins(inner, maxStops) ==
    /\ Len(appStops) < maxStops
    /\ AsrStops
    /\ sessions' = updateSession(sessions, currentSession, toISOString(now))
    /\ dbLast' = NoObs
    /\ rateLimits' = RateLimitAfter(rateLimits, currentProvider, now)
    /\ appStops' = Append(appStops, [sessionId |-> currentSession,
                                     inner |-> inner])
    /\ UNCHANGED <<currentSession, appLast, nextSessionId>>

\* EchoApp.stopSession (lines 446-474): nothing without a current session;
\* after the summary the overlay is notified and this.currentSession set to
\* null; no path returns a value
AppStopSession(maxStops) ==
    /\ dbOpen
    /\ IF currentSession = 0
       THEN /\ appLast' = AppCall("stopSession", Null, 0, FALSE)
            /\ UNCHANGED <<sessions, nextSessionId, dbLast, rateLimits,
                           appStops, currentSession, asrSessionVars,
                   retryCall>>
       ELSE IF Configured(currentProvider)
       THEN AppStopBegins(FALSE, maxStops)
       ELSE /\ AsrStops
            /\ sessions' = updateSession(sessions, currentSession,
                                         toISOString(now))
            /\ dbLast' = NoObs
            /\ currentSession' = 0
            /\ appLast' = AppCall("stopSession", Null, currentSession, FALSE)
            /\ UNCHANGED <<nextSessionId, rateLimits, appStops,
                   retryCall>>
    /\ UNCHANGED appFrame

\* EchoApp.startSession (lines 409-444): a current session is stopped first.
\* cap bounds the sessions created
AppStartSession(cap, maxStops, captureFail) ==
    /\ dbOpen
    /\ nextSessionId <= cap
    /\ IF currentSession # 0 /\ Configured(currentProvider)
       THEN AppStopBegins(TRUE, maxStops)
       ELSE /\ IF currentSession # 0
               THEN AppCreates(updateSession(sessions, currentSession,
                                             toISOString(now)),
                               FALSE,
                               IF isRecording THEN FALSE
                               ELSE streamingInterval,
                               IF isRecording THEN ClearTimer(timers)
                               ELSE timers,
                               captureFail)
               ELSE AppCreates(sessions, isRecording, streamingInterval,
                               timers, captureFail)
            /\ UNCHANGED <<rateLimits, appStops,
                   retryCall>>
    /\ UNCHANGED appFrame

\* The summary of the i-th awaited stopSession call arrives: the call reads
\* this.currentSession.id (a TypeError, caught, when it is null by now),
\* sets this.currentSession to null and returns; the startSession that made
\* the call goes on to create its session
SummaryReturns(i, cap, captureFail) ==
    /\ i \in 1 .. Len(appStops)
    /\ appStops' = RemoveAt(appStops, i)
    /\ IF appStops[i].inner
       THEN /\ nextSessionId <= cap
            /\ AppCreates(sessions, isRecording, streamingInterval,
                          timers, captureFail)
       ELSE /\ currentSession' = 0
            /\ appLast' = AppCall("stopSession", Null, appStops[i].sessionId,
                                  FALSE)
            /\ UNCHANGED <<sessions, nextSessionId, dbLast, asrSessionVars>>
    /\ UNCHANGED rateLimits
    /\ UNCHANGED appFrame

\* The orchestrator after its constructor
InitApp ==
    /\ currentSession = 0
    /\ appStops = <<>>
    /\ appLast = NoAppCall

----------------------------------------------------------------------------
\* Inputs of SpecStore
CacheKeys == {"session_1"}
CacheValues == {<<"a">>, <<"b">>}
TtlSeconds == {3600, 86400}
Plaintexts == {<<>>, <<"c", "v">>}
IVs == {1}
AnySessionIds == 1 .. MaxSessions

InitStore ==
    /\ now = 0
    /\ nowDays = 0
    /\ dbOpen = FALSE
    /\ inMemory = FALSE
    /\ keytarOn \in BOOLEAN
    /\ keychain = NoKey
    /\ keyFile = NoKey
    /\ encryptionKey = NoKey
    /\ keysMade = 0
    /\ sessions = {}
    /\ nextSessionId = 1
    /\ transcripts = <<>>
    /\ suggestions = <<>>
    /\ actions = <<>>
    /\ integrations = {}
    /\ profiles = {}
    /\ metrics = <<>>
    /\ context_cache = {}
    /\ dbLast = NoObs
    /\ InitLLM
    /\ InitASR
    /\ InitApp

NextStore ==
    \/ \E readFail \in BOOLEAN, openFail \in BOOLEAN :
          DbInitialize(readFail, openFail)
    \/ createSession
    \/ \E sid \in AnySessionIds : DbAddTranscript(sid)
    \/ \E sid \in AnySessionIds : DbAddSuggestion(sid)
    \/ \E sid \in AnySessionIds : DbAddAction(sid)
    \/ \E sid \in AnySessionIds : DbSaveMetrics(sid)
    \/ \E pt \in Plaintexts, iv \in IVs : saveIntegration("jira", pt, iv)
    \/ \E pt \in Plaintexts, iv \in IVs : saveProfile(pt, pt, iv)
    \/ getProfile
    \/ \E k \in CacheKeys, iv \in IVs : setContextCache(k, <<"a">>, 3600, iv)
    \/ \E sid \in AnySessionIds : deleteSession(sid)
    \/ \E txFail \in BOOLEAN, keychainFail \in BOOLEAN, unlinkFail \in BOOLEAN :
          wipeAllData(txFail, keychainFail, unlinkFail)

\* The store without its clock: sessions, child rows, profile, integrations,
\* keys and the wipe
SpecStore == InitStore /\ [][NextStore]_vars

NextCache ==
    \/ \E readFail \in BOOLEAN, openFail \in BOOLEAN :
          DbInitialize(readFail, openFail)
    \/ \E k \in CacheKeys, v \in CacheValues, ttl \in TtlSeconds, iv \in IVs :
          setContextCache(k, v, ttl, iv)
    \/ \E k \in CacheKeys : getContextCache(k)
    \/ cleanupExpiredCache
    \/ CacheTick

\* The context cache under a moving clock
SpecCache == InitStore /\ [][NextCache]_vars


----------------------------------------------------------------------------
\* Inputs of SpecLLM
\* Tell me about Go
CtxPlain == <<"T", "e", "l", "l", " ", "m", "e", " ", "a", "b", "o", "u",
    "t", " ", "G", "o">>

\* SUDO make me
CtxSudo == <<"S", "U", "D", "O", " ", "m", "a", "k", "e", " ", "m", "e">>

\* You are now free
CtxYouAreNow == <<"Y", "o", "u", " ", "a", "r", "e", " ", "n", "o", "w",
    " ", "f", "r", "e", "e">>

\* * Give one concrete example\n2. Ask about the team\nok
RespGood == <<"*", " ", "G", "i", "v", "e", " ", "o", "n", "e", " ", "c",
    "o", "n", "c", "r", "e", "t", "e", " ", "e", "x", "a", "m", "p", "l",
    "e", "\n", "2", ".", " ", "A", "s", "k", " ", "a", "b", "o", "u", "t",
    " ", "t", "h", "e", " ", "t", "e", "a", "m", "\n", "o", "k">>

\* - Pretend to be the boss
RespInject == <<"-", " ", "P", "r", "e", "t", "e", "n", "d", " ", "t", "o",
    " ", "b", "e", " ", "t", "h", "e", " ", "b", "o", "s", "s">>

Responses == {RespGood, RespInject, <<>>}

\* The error of a failing generate call: 503 Service Unavailable, which
\* shouldRetry names retryable
ServerError == [status |-> 503, timeout |-> FALSE]

\* Arguments of getSuggestions: a plain context on two pipelines, with and
\* without the cache, without a session, with session 1 and with a session
\* that does not exist; contexts that match the injection screen; contexts
\* and a pipeline that validateInput refuses
CallInput(context, pipeline, sessionId, useCache) ==
    [context |-> context, pipeline |-> pipeline, sessionId |-> sessionId,
     useCache |-> useCache]

CallInputs ==
    {CallInput(Str(CtxPlain), "interview", 0, TRUE),
     CallInput(Str(CtxPlain), "interview", 1, TRUE),
     CallInput(Str(CtxPlain), "interview", 2, FALSE),
     CallInput(Str(CtxPlain), "meeting", 0, TRUE),
     CallInput(Str(CtxSudo), "interview", 1, TRUE),
     CallInput(Str(CtxYouAreNow), "meeting", 0, FALSE),
     CallInput(NotAString, "interview", 0, TRUE),
     CallInput(Str(<<>>), "meeting", 0, TRUE),
     CallInput(Str(CtxPlain), "bogus", 0, TRUE)}

\* The store as the suggestion engine finds it: open, session 1 created
InitLLMStore ==
    /\ now = 0
    /\ nowDays = 0
    /\ dbOpen = TRUE
    /\ inMemory = FALSE
    /\ keytarOn = TRUE
    /\ keychain = 1
    /\ keyFile = NoKey
    /\ encryptionKey = 1
    /\ keysMade = 1
    /\ sessions = {[id |-> 1, started_at |-> datetimeNow(0), ended_at |-> Null]}
    /\ nextSessionId = 2
    /\ transcripts = <<>>
    /\ suggestions = <<>>
    /\ actions = <<>>
    /\ integrations = {}
    /\ profiles = {}
    /\ metrics = <<>>
    /\ context_cache = {}
    /\ dbLast = NoObs

InitLLMSpec == InitLLMStore /\ InitLLM /\ InitASR /\ InitApp

\* The engine with one provider to configure, under a moving clock
NextLLM ==
    \/ ConfigureProvider("openai")
    \/ \E p \in {"openai", "anthropic"} : setProvider(p)
    \/ \E in \in CallInputs :
          getSuggestions(MaxCalls, in.context, in.pipeline, in.sessionId,
                         in.useCache)
    \/ \E text \in Responses : ProviderReturns(text)
    \/ ProviderThrows(ServerError)
    \/ LlmTick(MaxLlmTicks)

SpecLLM == InitLLMSpec /\ [][NextLLM]_vars


\* Arguments of getSuggestions in SpecChain
ChainInputs ==
    {CallInput(Str(CtxPlain), "interview", 0, FALSE),
     CallInput(Str(CtxPlain), "meeting", 1, TRUE)}

\* The engine with all three providers to configure, the clock at rest
NextChain ==
    \/ \E p \in ProviderNames : ConfigureProvider(p)
    \/ \E p \in ProviderNames : setProvider(p)
    \/ \E in \in ChainInputs :
          getSuggestions(MaxChainCalls, in.context, in.pipeline, in.sessionId,
                         in.useCache)
    \/ \E text \in {RespGood, RespInject} : ProviderReturns(text)
    \/ ProviderThrows(ServerError)

SpecChain == InitLLMSpec /\ [][NextChain]_vars

----------------------------------------------------------------------------
\* Inputs of SpecASR and SpecGate
\* "Call John Smith": the NAME pattern matches "Call John"
TextName ==
    <<"C", "a", "l", "l", " ", "J", "o", "h", "n", " ", "S", "m", "i", "t",
      "h">>

\* "Hello there": no pattern matches
TextPlain ==
    <<"H", "e", "l", "l", "o", " ", "t", "h", "e", "r", "e">>

\* Only white space
TextBlank ==
    <<" ", " ">>

Result(text, confidence) == Some([text |-> text, confidence |-> confidence])

\* Session 1 is the row createSession makes; no row has id 2
AsrSessionIds == {1, 2}

InitASRSpec ==
    /\ InitStore
    /\ keytarOn = TRUE

\* The transcription session under every interleaving of timer ticks, the
\* producer and the transcriber's completions
NextASR ==
    \/ \E readFail \in BOOLEAN : AsrInitialize(readFail, FALSE)
    \/ createSession
    \/ \E sid \in AsrSessionIds, captureFail \in BOOLEAN :
          startSession(sid, captureFail)
    \/ stopSession
    \/ AppendAudio(MaxChunks)
    \/ TimerTick(MaxPasses, MaxInFlight)
    \/ \E i \in 1 .. MaxInFlight : TranscriberThrows(i)
    \/ \E i \in 1 .. MaxInFlight, result \in {Null, Result(TextPlain, 85)} :
          TranscriberReturns(i, result)

SpecASR == InitASRSpec /\ [][NextASR]_vars

GateResults == {Null, Result(TextName, 85), Result(TextName, 60),
                Result(TextPlain, 85), Result(TextBlank, 85)}

\* The transcription session with one pass at a time and a transcriber that
\* always answers
NextGate ==
    \/ AsrInitialize(FALSE, FALSE)
    \/ createSession
    \/ \E sid \in {0, 1} : startSession(sid, FALSE)
    \/ AppendAudio(MaxGateChunks)
    \/ TimerTick(MaxGatePasses, 1)
    \/ \E result \in GateResults : TranscriberReturns(1, result)

SpecGate == InitASRSpec /\ [][NextGate]_vars

\* The transcription session with a transcriber that always answers, under
\* every interleaving of timer ticks, the producer and the completions
NextWindow ==
    \/ AsrInitialize(FALSE, FALSE)
    \/ createSession
    \/ \E sid \in {0, 1} : startSession(sid, FALSE)
    \/ stopSession
    \/ AppendAudio(MaxWindowChunks)
    \/ SkipTick(MaxSkips)
    \/ TimerTick(MaxWindowPasses, MaxInFlight)
    \/ \E i \in 1 .. MaxInFlight, result \in {Null, Result(TextPlain, 85)} :
          TranscriberReturns(i, result)

SpecWindow == InitASRSpec /\ [][NextWindow]_vars

\* One provider's withRetry under every outcome of its operation
NextRetry ==
    \/ withRetry(MaxRetryCalls)
    \/ OperationReturns
    \/ \E error \in OperationErrors : OperationThrows(error)
    \/ OperationTimesOut
    \/ SleepEnds

SpecRetry == InitLLMSpec /\ [][NextRetry]_vars

\* The store's keys and encrypted fields over wipes and restarts of the app
NextRestart ==
    \/ \E readFail \in BOOLEAN, openFail \in BOOLEAN :
          DbInitialize(readFail, openFail)
    \/ \E pt \in Plaintexts, iv \in IVs : saveIntegration("jira", pt, iv)
    \/ \E pt \in Plaintexts, iv \in IVs : saveProfile(pt, pt, iv)
    \/ getProfile
    \/ \E txFail \in BOOLEAN, keychainFail \in BOOLEAN, unlinkFail \in BOOLEAN :
          wipeAllData(txFail, keychainFail, unlinkFail)
    \/ DbRestart

SpecRestart == InitStore /\ [][NextRestart]_vars

\* The session calls of ASRService from a caller that does not await them
NextOverlap ==
    \/ AsrInitialize(FALSE, FALSE)
    \/ \E sid \in AsrSessionIds : StartSessionBegins(sid, MaxStarts, MaxTimers)
    \/ \E i \in 1 .. MaxStarts, captureFail \in BOOLEAN :
          StartSessionResumes(i, captureFail)
    \/ stopSession
    \/ cleanup

SpecOverlap == InitASRSpec /\ [][NextOverlap]_vars

\* The two retry loops side by side: a provider's withRetry and the passes
\* of a transcription session, one at a time
NextBackoff ==
    \/ withRetry(MaxBackoffCalls)
    \/ OperationReturns
    \/ \E error \in OperationErrors : OperationThrows(error)
    \/ OperationTimesOut
    \/ SleepEnds
    \/ AsrInitialize(FALSE, FALSE)
    \/ startSession(0, FALSE)
    \/ AppendAudio(MaxBackoffChunks)
    \/ TimerTick(MaxBackoffPasses, 1)
    \/ TranscriberThrows(1)
    \/ \E result \in {Null, Result(TextPlain, 85)} :
          TranscriberReturns(1, result)

SpecBackoff == InitASRSpec /\ [][NextBackoff]_vars

\* The store of transcripts over sixty days, with the hourly retention task
NextRetention ==
    \/ AsrInitialize(FALSE, FALSE)
    \/ createSession
    \/ \E sid \in AnySessionIds : DbAddTranscript(sid)
    \/ \E sid \in AnySessionIds : deleteSession(sid)
    \/ cleanupOldTranscripts
    \/ DayTick(RetentionTickDays, MaxRetentionTicks)

SpecRetention == InitASRSpec /\ [][NextRetention]_vars

\* The orchestrator's session calls from hotkeys, menu and IPC, with and
\* without a provider for the summary, under a moving clock
NextApp ==
    \/ AsrInitialize(FALSE, FALSE)
    \/ ConfigureProvider("openai")
    \/ \E captureFail \in BOOLEAN :
          AppStartSession(MaxAppSessions, MaxAppStops, captureFail)
    \/ AppStopSession(MaxAppStops)
    \/ \E i \in 1 .. MaxAppStops, captureFail \in BOOLEAN :
          SummaryReturns(i, MaxAppSessions, captureFail)
    \/ LlmTick(MaxAppTicks)

SpecApp == InitASRSpec /\ [][NextApp]_vars

\* Arguments of getSuggestions in SpecQuota
QuotaInputs ==
    {CallInput(Str(CtxPlain), "interview", 0, FALSE),
     CallInput(Str(CtxPlain), "meeting", 0, FALSE)}

\* The engine with anthropic configured and selected, its generate calls
\* counted
InitQuota ==
    /\ InitLLMStore
    /\ InitASR
    /\ InitApp
    /\ providers = [p \in ProviderNames |-> p = "anthropic"]
    /\ currentProvider = "anthropic"
    /\ responseCache = <<>>
    /\ rateLimits = [p \in ProviderNames |-> [requests |-> 0, resetTime |-> 0]]
    /\ llmCall = IdleCall
    /\ llmLast = NoCallYet
    /\ llmBegun = 0
    /\ watched = "anthropic"
    /\ sentNow = 0
    /\ llmErr = NoError
    /\ retryCall = IdleRetry

NextQuota ==
    \/ \E in \in QuotaInputs :
          getSuggestions(MaxQuotaCalls, in.context, in.pipeline, in.sessionId,
                         in.useCache)
    \/ \E text \in {RespGood, <<>>} : ProviderReturns(text)
    \/ ProviderThrows(ServerError)
    \/ LlmTick(MaxQuotaTicks)

SpecQuota == InitQuota /\ [][NextQuota]_vars

----------------------------------------------------------------------------
\* Inputs of SpecScreen
\* A context of maxContextLength + 1 characters
LongContext == [i \in 1 .. maxContextLength + 1 |-> "a"]

\* One line of maxSuggestionLength + 1 characters after its bullet
RespLong == <<"-", " ">> \o [i \in 1 .. maxSuggestionLength + 1 |-> "a"]

\* - Mail bob@corp.io for the offer
RespMail == <<"-", " ", "M", "a", "i", "l", " ", "b", "o", "b", "@", "c",
    "o", "r", "p", ".", "i", "o", " ", "f", "o", "r", " ", "t", "h", "e",
    " ", "o", "f", "f", "e", "r">>

\* Five lines: 1. Point number one ... 5. Point number one
RespMany ==
    joinLines([k \in 1 .. 5 |->
        <<Ascii[17 + k], ".", " ", "P", "o", "i", "n", "t", " ", "n", "u", "m",
          "b", "e", "r", " ", "o", "n", "e">>])

ScreenResponses == {RespGood, RespInject, RespLong, RespMail, RespMany}

\* Arguments of getSuggestions in SpecScreen: a plain context and one with a
\* name in it, a value that is not a string, a context that is too long, a
\* pipeline that is not known and one that names a member of Object.prototype
ScreenInputs ==
    {CallInput(Str(CtxPlain), "interview", 1, TRUE),
     CallInput(Str(TextName), "meeting", 0, TRUE),
     CallInput(NotAString, "interview", 1, TRUE),
     CallInput(Str(LongContext), "meeting", 1, TRUE),
     CallInput(Str(CtxPlain), "bogus", 1, TRUE),
     CallInput(Str(CtxPlain), "constructor", 1, TRUE)}

\* The engine with one provider to configure, which answers with texts of
\* every shape or fails, the clock at rest
NextScreen ==
    \/ ConfigureProvider("openai")
    \/ \E in \in ScreenInputs :
          getSuggestions(MaxScreenCalls, in.context, in.pipeline,
                         in.sessionId, in.useCache)
    \/ \E text \in ScreenResponses : ProviderReturns(text)
    \/ ProviderThrows(ServerError)

SpecScreen == InitLLMSpec /\ [][NextScreen]_vars


\* The context of the n-th call that brings a new key: "note 001", ...
EvictContext(n) ==
    <<"n", "o", "t", "e", " ", Ascii[17 + ((n \div 100) % 10)],
      Ascii[17 + ((n \div 10) % 10)], Ascii[17 + (n % 10)]>>

\* - Check the notes
RespNote == <<"-", " ", "C", "h", "e", "c", "k", " ", "t", "h", "e", " ",
    "n", "o", "t", "e", "s">>

\* Arguments of the n-th getSuggestions call of SpecEvict: the first
\* FillCalls calls bring one new context each; a later call brings a new
\* context or repeats the first or the second one
EvictInputs(n) ==
    IF n <= FillCalls
    THEN {CallInput(Str(EvictContext(n)), "meeting", 0, TRUE)}
    ELSE {CallInput(Str(EvictContext(k)), "meeting", 0, TRUE) : k \in {1, 2, n}}

\* The engine with one provider, which answers every call, the clock at
\* rest: the response cache fills up and overflows
NextEvict ==
    \/ ConfigureProvider("openai")
    \/ \E in \in EvictInputs(llmBegun + 1) :
          getSuggestions(MaxEvictCalls, in.context, in.pipeline,
                         in.sessionId, in.useCache)
    \/ ProviderReturns(RespNote)

SpecEvict == InitLLMSpec /\ [][NextEvict]_vars

----------------------------------------------------------------------------
\* Properties

\* C1: while one getSuggestions call is served, each provider of the chain
\* openai -> anthropic -> google is tried at most once, so the call ends in
\* the fallback list after at most three failing generate calls
ChainTriesEachProviderOnce ==
    \A p \in ProviderNames : llmCall.tried[p] <= 1

\* C2: in one session the breaker emits session-error at most once, whatever
\* the order of timer ticks and transcription completions
BreakerEmitsOnce == breakerEvents <= 1

\* C3: at most one processing pass is in flight at any time
OnePassInFlight == Len(passes) <= 1

\* C4: a wipeAllData call leaves either all eight tables empty and no key in
\* keychain and key file, or tables, keychain and key file as they were
WipeAllOrNothing ==
    [][dbLast'.op = "wipeAllData" =>
          \/ /\ Tables' = EmptyTables
             /\ keychain' = NoKey
             /\ keyFile' = NoKey
          \/ /\ Tables' = Tables
             /\ keychain' = keychain
             /\ keyFile' = keyFile]_vars

\* The instant an ISO string of toISOString names, in milliseconds
ParseISO(iso) == iso[1] * MsPerDay + iso[3] * MsPerSecond + iso[4]

\* C5: a getContextCache later than the entry's expires_at returns null, and
\* one before expires_at returns the value that was stored
ExpiredReadMisses ==
    (dbLast.op = "getContextCache" /\ dbLast.row # Null) =>
        LET row == dbLast.row[1]
            stored == decrypt(row.value_encrypted, encryptionKey).val[1]
        IN  /\ dbLast.at > ParseISO(row.expires_at) => dbLast.res = Null
            /\ dbLast.at < ParseISO(row.expires_at) =>
                  /\ dbLast.res # Null
                  /\ JSONstringify(dbLast.res[1]) = stored

\* C6: the generate calls sent to the watched provider at one instant of the
\* clock, hence within one 60-second window, are at most its quota
QuotaRespected ==
    watched \in ProviderNames => sentNow <= maxRequests(watched)

\* C7: of two consecutive getSuggestions calls with the same context and
\* pipeline, both with caching, the first served by one generate call and
\* cached: a second call begun less than cacheTimeout after the first
\* makes no generate call and returns the first call's list, and one begun
\* cacheTimeout or more after the first returned is no cache hit and, with a
\* provider configured, makes a generate call
RepeatServedFromCache ==
    [][(/\ llmLast'.n = llmLast.n + 1
        /\ llmLast.n >= 1
        /\ llmLast'.context = llmLast.context
        /\ llmLast'.pipeline = llmLast.pipeline
        /\ llmLast.useCache /\ llmLast'.useCache
        /\ llmLast.calls = 1 /\ llmLast.valid
        /\ llmLast.result # getFallbackSuggestions(llmLast.pipeline))
       => /\ llmLast'.began - llmLast.began < cacheTimeout =>
                /\ llmLast'.hit
                /\ llmLast'.calls = 0
                /\ llmLast'.result = llmLast.result
          /\ llmLast'.began - llmLast.at >= cacheTimeout =>
                /\ ~llmLast'.hit
                /\ llmLast'.prov => llmLast'.calls >= 1]_vars

\* The second of two calls was served from the cache with the provider's list
RepeatWasServedFromCache ==
    /\ llmLast.n = 2
    /\ llmLast.hit
    /\ llmLast.calls = 0
    /\ llmLast.context = Str(CtxPlain)
    /\ llmLast.result = parseSuggestions(RespGood)

\* The sample contexts that match the injection screen: a blocked command in
\* upper case, a dangerous phrase in mixed case
InjectionSamples == {Str(CtxSudo), Str(CtxYouAreNow)}

\* C8: a getSuggestions call with a context that matches the injection
\* screen and a valid pipeline returns that pipeline's fallback list and
\* makes no generate call
InjectionGetsFallback ==
    (/\ llmLast.n > 0
     /\ llmLast.context \in InjectionSamples
     /\ llmLast.pipeline \in allowedPipelines)
    => /\ llmLast.result = getFallbackSuggestions(llmLast.pipeline)
       /\ llmLast.calls = 0

\* A call with the upper-case blocked command returned, a provider configured
InjectionWasScreened ==
    /\ llmLast.n > 0
    /\ llmLast.context = Str(CtxSudo)
    /\ llmLast.pipeline = "interview"
    /\ llmLast.prov
    /\ llmLast.result = FallbackInterview
    /\ llmLast.calls = 0

\* C9: a transcript is emitted only with a confidence of at least
\* confidenceThreshold and a recognised text other than that of the
\* transcript emitted before it in the session
DuplicateSuppressed ==
    (asrLast.seen /\ asrLast.emitted) =>
        /\ asrLast.confidence >= confidenceThreshold
        /\ asrLast.text # asrLast.prev

\* C10: no chunk is cleared from the buffer without having been handed to
\* the transcriber in some pass
NoAudioLost == lost = {}

\* C11: a pass on a buffer shorter than half a second of samples makes no
\* transcription call and leaves the buffer as it was, and a pass on a buffer
\* of at least half a second makes the one and only transcription call that
\* carries that audio
MinimumBufferGate ==
    [][/\ skipped' # skipped =>
             /\ audioBuffer' = audioBuffer
             /\ calls' = calls
             /\ passes' = passes
       /\ passesBegun' # passesBegun =>
             \A c \in Range(audioBuffer) : calls'[c] = 1]_vars

\* C12: a getSuggestions call in which a provider failed returns the fallback
\* text of generateResponse only when every configured provider has been
\* tried: an unconfigured provider of the chain is skipped
FallbackOnlyWhenChainExhausted ==
    (llmLast.n > 0 /\ llmLast.ended = "guard" /\ llmLast.calls >= 1) =>
        \A p \in ProviderNames : llmLast.provs[p] => llmLast.tried[p] >= 1

\* C13: a generate call that fails with an error shouldRetry names
\* retryable, before the provider's providerMaxRetries attempts are used, is
\* followed by another generate call to the same provider
RetriesTransientFailure ==
    [][(/\ llmErr' # llmErr
        /\ shouldRetry(llmErr'.error)
        /\ llmErr'.attempt < providerMaxRetries)
       => /\ llmCall'.pc = "awaiting"
          /\ llmCall'.provider = llmErr'.provider]_vars

\* C14: no generate call is still awaited more than timeoutMs after it was
\* sent: by then the call has been treated as failed
CallBoundedByTimeout ==
    llmCall.pc = "awaiting" => now - llmCall.sentAt <= timeoutMs

\* C15: a getSuggestions call for a session that returns a list other than
\* the pipeline's fallback list has written every item of the list to the
\* store with addSuggestion
ReturnedSuggestionsSaved ==
    (/\ llmLast.n > 0
     /\ llmLast.sessionId # 0
     /\ llmLast.result # <<>>
     /\ llmLast.result # getFallbackSuggestions(llmLast.pipeline))
    => llmLast.saved = llmLast.result

\* C16: every getSuggestions call returns a list of at least one suggestion,
\* each a text of at least one character
ReturnsUsableList ==
    llmLast.n > 0 =>
        /\ llmLast.result # <<>>
        /\ \A i \in 1 .. Len(llmLast.result) : llmLast.result[i] # <<>>

\* The calls the input validation has to refuse: a context that is not a
\* text or is longer than 50,000 characters, a pipeline that is not known
InvalidCall(context, pipeline) ==
    \/ ~context.isText
    \/ Len(context.chars) > maxContextLength
    \/ pipeline \notin allowedPipelines

\* C17: a getSuggestions call with such a context or pipeline returns the
\* pipeline's fallback list (the interview list for an unknown pipeline)
\* without a generate call, and leaves the response cache and the store as
\* they were
InvalidInputRejected ==
    [][(/\ llmLast'.n = llmLast.n + 1
        /\ InvalidCall(llmLast'.context, llmLast'.pipeline))
       => /\ llmLast'.result =
                IF llmLast'.pipeline \in allowedPipelines
                THEN getFallbackSuggestions(llmLast'.pipeline)
                ELSE FallbackInterview
          /\ llmLast'.calls = 0
          /\ ~llmLast'.hit
          /\ responseCache' = responseCache
          /\ dbVars' = dbVars]_vars

\* C18: the context placed in the prompt of a generate call is the redacted
\* context, and the suggestions returned from a provider's text are the
\* redacted items of that text
NothingUnredactedLeaves ==
    /\ llmCall.pc = "awaiting" =>
          llmCall.processedContext = redactPII(llmCall.context.chars)
    /\ (/\ llmLast.n > 0
        /\ llmLast.ended = "provider"
        /\ llmLast.result # getFallbackSuggestions(llmLast.pipeline))
       => LET parsed == parseSuggestions(llmLast.text)
          IN  /\ Len(llmLast.result) = Len(parsed)
              /\ \A i \in 1 .. Len(parsed) :
                    llmLast.result[i] = redactPII(parsed[i])

\* An item the response validation has to refuse
BadItem(item) ==
    \/ Len(item) > maxSuggestionLength
    \/ detectPromptInjection(Str(item))

\* C19: the list a getSuggestions call returns has at most 4 items, each of
\* at most 1000 characters and none matching the injection screen; a
\* provider's text with a parsed item that is too long or matches the screen
\* gives the fallback list and leaves the response cache as it was (a call
\* whose pipeline names a member of Object.prototype returns no list)
ResponseScreened ==
    [][(/\ llmLast'.n = llmLast.n + 1
        /\ llmLast'.pipeline \notin ObjectPrototypeKeys)
       => /\ Len(llmLast'.result) <= maxSuggestions
          /\ \A i \in 1 .. Len(llmLast'.result) : ~BadItem(llmLast'.result[i])
          /\ (/\ llmLast'.ended = "provider"
              /\ \E i \in 1 .. Len(parseSuggestions(llmLast'.text)) :
                    BadItem(parseSuggestions(llmLast'.text)[i]))
             => /\ llmLast'.result =
                      getFallbackSuggestions(llmLast'.pipeline)
                /\ responseCache' = responseCache]_vars

\* A provider's text with an item of 1001 characters was answered with the
\* fallback list and not cached
LongItemWasReplaced ==
    /\ llmLast.n > 0
    /\ llmLast.ended = "provider"
    /\ llmLast.text = RespLong
    /\ llmLast.useCache
    /\ llmLast.result = getFallbackSuggestions(llmLast.pipeline)
    /\ responseCache = <<>>

\* C20: the response cache never holds more than maxCacheSize entries, and a
\* new key inserted into a full cache removes exactly the entry whose key
\* was inserted earliest (the first of the Map), every other entry keeping
\* its place in the order, whether or not the removed entry was read since
CacheEvictsEarliestInserted ==
    /\ [](Len(responseCache) <= maxCacheSize)
    /\ [][LET key == generateCacheKey(llmLast'.context, llmLast'.pipeline)
          IN  (/\ Len(responseCache) = maxCacheSize
               /\ responseCache' # responseCache
               /\ CacheIndex(responseCache, key) = 0)
              => /\ Len(responseCache') = maxCacheSize
                 /\ responseCache'[maxCacheSize].key = key
                 /\ \A i \in 2 .. maxCacheSize :
                        responseCache'[i - 1] = responseCache[i]
                 /\ CacheIndex(responseCache', responseCache[1].key) = 0
         ]_vars

\* A call brought a new key into the full cache, and the entry removed for
\* it had served the call just before from the cache
ReadEntryWasEvicted ==
    /\ llmLast.evictedRead
    /\ Len(responseCache) = maxCacheSize
    /\ CacheIndex(responseCache, llmLast.evicted[1]) = 0
    /\ llmLast.evicted[1] = generateCacheKey(Str(EvictContext(1)), "meeting")

\* C21: a startSession call that does not start the session (the service is
\* not initialized, or startAudioCapture fails) returns normally, has
\* emitted an event for the failure, and leaves the service not recording
\* and without a streaming timer
StartSessionNeverThrows ==
    [][(/\ asrCall' # asrCall
        /\ asrCall'.op = "startSession"
        /\ asrCall'.returned # "true")
       => /\ asrCall'.returned = "false"
          /\ asrCall'.event # "none"
          /\ ~isRecording'
          /\ ~streamingInterval']_vars

\* C22: a stopSession call on a service that is not recording changes no
\* field of the service and no table, begins no transcription call, emits
\* no event and does not throw
IdleStopIsNoOp ==
    [][(~isRecording /\ stopSession)
       => /\ UNCHANGED <<now, nowDays, dbVars, llmVars, appVars, isInitialized, isRecording,
                         audioBuffer, currentSessionId, streamingInterval,
                         lastTranscript, consecutiveErrors, passes,
                         chunksMade, passesBegun, heard, lost, breakerEvents,
                         asrLast, lastRaw, skipped, calls, timers>>
          /\ asrCall'.event = "none"
          /\ asrCall'.returned # "throws"]_vars

\* stopSession was called on a stopped session that still holds audio in
\* its buffer, and returned at once
StoppedSessionStoppedAgain ==
    /\ asrCall = AsrCall("stopSession", "undefined", "none")
    /\ isInitialized
    /\ ~isRecording
    /\ audioBuffer # <<>>

\* C23: decrypt(encrypt(P)) is P for every plaintext P, the empty string
\* included: right after saveProfile has encrypted a resume, decrypting the
\* stored field under the same key gives the resume that was passed
DecryptInvertsEncrypt ==
    dbLast.op = "saveProfile" =>
        \A r \in profiles :
            decrypt(r.resume_blob_encrypted, encryptionKey)
                = [ok |-> TRUE, val |-> dbLast.res]

\* C24: after a wipeAllData call that completed, the eight tables are empty,
\* getProfile returns null, and neither the keychain nor the key file holds
\* the encryption key that was in use before the call
WipeLeavesNothing ==
    [][(dbLast'.op = "wipeAllData" /\ dbLast'.ok)
       => /\ Tables' = EmptyTables
          /\ getProfileResult' = [ok |-> TRUE, val |-> Null]
          /\ keychain' # encryptionKey
          /\ keyFile' # encryptionKey]_vars

\* C25: an initialize call during which the database file cannot be opened
\* completes without throwing, on the in-memory database, and tells its
\* caller of the fallback (a value returned to it)
PersistenceDegradedReported ==
    [][(/\ dbLast'.op = "initialize"
        /\ dbOpen' /\ ~dbOpen
        /\ inMemory')
       => /\ dbLast'.ok
          /\ dbLast'.res # Null]_vars

\* The rows of a child table all name a session of the sessions table
RowsReferenceSessions(rows) ==
    \A i \in 1 .. Len(rows) : rows[i].session_id \in SessionIds

\* C26: every row of transcripts, suggestions, actions and metrics names an
\* existing session, and an insert into one of them that names a session
\* that does not exist is rejected and leaves the eight tables unchanged
ChildRowsReferenceSessions ==
    /\ [](/\ RowsReferenceSessions(transcripts)
          /\ RowsReferenceSessions(suggestions)
          /\ RowsReferenceSessions(actions)
          /\ RowsReferenceSessions(metrics))
    /\ [][\A sid \in AnySessionIds :
            (/\ sid \notin SessionIds
             /\ \/ DbAddTranscript(sid)
                \/ DbAddSuggestion(sid)
                \/ DbAddAction(sid)
                \/ DbSaveMetrics(sid))
            => /\ ~dbLast'.ok
               /\ Tables' = Tables]_vars

\* An insert that named a session deleted before was rejected
OrphanInsertRejected ==
    /\ dbLast.op \in {"addTranscript", "addSuggestion", "addAction",
                      "saveMetrics"}
    /\ ~dbLast.ok
    /\ nextSessionId > 1
    /\ sessions = {}
    /\ ChildRows = 0

\* C27: an EchoApp.stopSession call made while a session was active returns
\* an object whose sessionId is the id of the session it stopped
StopReturnsSessionId ==
    (appLast.op = "stopSession" /\ appLast.sessionId # 0) =>
        /\ appLast.returned # Null
        /\ appLast.returned[1].sessionId = appLast.sessionId

\* The instant a CURRENT_TIMESTAMP string names, in milliseconds
ParseTimestamp(text) == text[1] * MsPerDay + text[3] * MsPerSecond

\* C28: the row of a session that stopSession has stopped has ended_at set,
\* and no row has an ended_at earlier than its started_at, as instants and
\* as the texts SQLite compares
SessionEndRecorded ==
    /\ (appLast.op = "stopSession" /\ appLast.sessionId # 0) =>
          \A r \in sessions : r.id = appLast.sessionId => r.ended_at # Null
    /\ \A r \in sessions :
          r.ended_at # Null =>
              /\ ParseISO(r.ended_at[1]) >= ParseTimestamp(r.started_at)
              /\ ~TextLess(r.ended_at[1], r.started_at)

\* A session was started, time passed, and stopSession returned for it
SessionStoppedLater ==
    /\ appLast.op = "stopSession"
    /\ \E r \in sessions :
          /\ r.id = appLast.sessionId
          /\ r.ended_at # Null
          /\ ParseISO(r.ended_at[1]) > ParseTimestamp(r.started_at)

\* A row of transcripts is older than the cutoff date of the retention
\* task, the instant retentionDays days before the clock's
OlderThanCutoff(row) ==
    LET rowDay == row.date + (row.timestamp \div MsPerDay)
        cutDay == (nowDays - retentionDays) + (now \div MsPerDay)
    IN  \/ rowDay < cutDay
        \/ rowDay = cutDay /\ row.timestamp % MsPerDay < now % MsPerDay

\* The rows of transcripts that are not older than retentionDays
RetainedTranscripts ==
    SelectSeq(transcripts, LAMBDA row : ~OlderThanCutoff(row))

\* C29: a run of the retention task removes every transcript row older than
\* retentionDays and no other row
RetentionPurgesOldTranscripts ==
    [][cleanupOldTranscripts => transcripts' = RetainedTranscripts]_vars

\* The error of the attempt that failed last in the withRetry call
LastAttemptError == retryCall.errors[Len(retryCall.errors)]

\* C30: withRetry invokes the operation at most providerMaxRetries times;
\* it invokes it again only after a failure shouldRetry names transient; on
\* any other failure it throws that error with no further attempt; and when
\* the last attempt fails it throws that attempt's error
WithRetryContract ==
    /\ [](retryCall.invocations <= providerMaxRetries)
    /\ [][SleepEnds => shouldRetry(LastAttemptError)]_vars
    /\ [][\A error \in OperationErrors :
            (OperationThrows(error) /\ ~shouldRetry(error))
            => /\ retryCall'.pc = "threw"
               /\ retryCall'.thrown = Some(error)]_vars
    /\ [][((OperationTimesOut \/ \E error \in OperationErrors :
                                      OperationThrows(error))
           /\ retryCall.attempt = providerMaxRetries)
          => retryCall'.thrown = Some(LastAttemptError')]_vars

\* The waits of a retry loop that has made a number of attempts: 1000 ms
\* after the first attempt, 2000 ms after the second
WaitsAfter(attempts) == SubSeq(<<1000, 2000>>, 1, attempts - 1)

\* C31: in withRetry and in transcribeAudioWithRetry the wait before attempt
\* k+1 is 1000 * 2^(k-1) ms and no wait follows the last failed attempt;
\* transcribeAudioWithRetry makes at most 3 transcription calls and hands on
\* the first result the transcriber returns
BackoffSchedule ==
    /\ [](/\ retryCall.invocations <= 3
          /\ retryCall.pc # "idle"
             => retryCall.waits = WaitsAfter(retryCall.invocations)
          /\ retryCall.pc = "sleeping" => retryCall.invocations < 3
          /\ \A i \in 1 .. Len(passes) :
                /\ passes[i].attempt <= 3
                /\ passes[i].waits = WaitsAfter(passes[i].attempt))
    /\ [][(TranscriberThrows(1) /\ passes[1].attempt = 3)
          => passes' = <<>>]_vars
    /\ [][TranscriberReturns(1, Result(TextPlain, 85))
          => /\ passes' = <<>>
             /\ calls' = calls
             /\ asrLast'.seen /\ asrLast'.text = TextPlain]_vars

\* Both loops have used all their attempts and slept twice
BothLoopsSleptTwice ==
    /\ retryCall.pc = "threw"
    /\ retryCall.waits = <<1000, 2000>>
    /\ Len(passes) = 1
    /\ passes[1].waits = <<1000, 2000>>

\* C32: a stopSession call on a recording session whose buffer holds at
\* least half a second of samples hands that audio to the transcriber as
\* part of the stop
StopTranscribesRemainingAudio ==
    [][(/\ stopSession
        /\ isRecording
        /\ Len(audioBuffer) * ChunkSamples >= sampleRate \div 2)
       => /\ passesBegun' = passesBegun + 1
          /\ Range(audioBuffer) \subseteq heard']_vars

\* The last session call was a stopSession that stopped the session
SessionStopped ==
    /\ ~isRecording
    /\ asrCall.op = "stopSession"
    /\ asrCall.returned = "true"

\* C33: after stopSession has returned, the result of a pass that was still
\* awaiting its transcription is discarded: no row is written to
\* transcripts and no transcript event emitted
StoppedSessionDiscardsResults ==
    [][\A i \in 1 .. Len(passes) :
          (SessionStopped /\ TranscriberReturns(i, Result(TextPlain, 85)))
          => /\ transcripts' = transcripts
             /\ ~asrLast'.emitted
             /\ lastTranscript' = lastTranscript]_vars

\* C34: the transcript of a pass is persisted under the id of the session
\* that was current when the pass started, and a pass begun in another
\* session than the current one does not change lastTranscript
TranscriptKeepsItsSession ==
    [][\A i \in 1 .. Len(passes) :
          TranscriberReturns(i, Result(TextPlain, 85))
          => /\ \A k \in Len(transcripts) + 1 .. Len(transcripts') :
                   transcripts'[k].session_id = passes[i].session
             /\ passes[i].session # currentSessionId
                => lastTranscript' = lastTranscript]_vars

\* C36: consecutiveErrors stays between 0 and maxConsecutiveErrors; it is 0
\* after a startSession call on an initialized service and grows by one when
\* a pass fails
ErrorCounterWithinThreshold ==
    /\ [](consecutiveErrors \in 0 .. maxConsecutiveErrors)
    /\ [][\A sid \in AsrSessionIds, captureFail \in BOOLEAN :
            (isInitialized /\ startSession(sid, captureFail))
            => consecutiveErrors' = 0]_vars
    /\ [][\A i \in 1 .. Len(passes) :
            (TranscriberThrows(i) /\ passes[i].attempt = maxRetries)
            => consecutiveErrors' = consecutiveErrors + 1]_vars

\* C35: at most one streaming timer runs, and none while the service is not
\* recording
AtMostOneStreamingTimer ==
    /\ Cardinality(timers.active) <= 1
    /\ ~isRecording => timers.active = {}

\* C37: after any sequence of initialize, save, wipeAllData and restart,
\* every encrypted field in the database decrypts with the key the open
\* service holds, so that getProfile reads the saved profile
EncryptedFieldsReadable ==
    dbOpen =>
        /\ getProfileResult.ok
        /\ \A r \in integrations :
              decrypt(r.access_token_encrypted, encryptionKey).ok

\* C38: a getSuggestions call that returns the pipeline's fallback list has
\* added nothing to the response cache and written no row to suggestions
FallbackLeavesNoTrace ==
    [][(/\ llmLast'.n = llmLast.n + 1
        /\ llmLast'.result = getFallbackSuggestions(llmLast'.pipeline))
       => /\ responseCache' = responseCache
          /\ suggestions' = suggestions]_vars

\* C39: when no orchestrator call is suspended, at most one session is
\* open: every row of sessions other than the current session's has
\* ended_at set, and currentSession is null exactly when no row is open
AtMostOneOpenSession ==
    appStops = <<>> =>
        /\ \A r \in sessions :
              r.id # currentSession => r.ended_at # Null
        /\ currentSession = 0 <=> \A r \in sessions : r.ended_at # Null

\* addTranscript for the current session would throw: the store is closed
\* or sessions has no row with the id
AddTranscriptWouldFail ==
    currentSessionId # 0 /\ ~(dbOpen /\ currentSessionId \in SessionIds)

\* C40: for a session with an id, a transcript event is emitted only after
\* its row was written with addTranscript; when addTranscript fails no
\* event is emitted for the result and lastTranscript stays as it was
PersistedBeforeEmitted ==
    [][\A i \in 1 .. Len(passes) :
          (currentSessionId # 0 /\ TranscriberReturns(i, Result(TextPlain, 85)))
          => /\ asrLast'.emitted
                => /\ asrLast'.persisted
                   /\ transcripts' = Append(transcripts,
                                            transcripts'[Len(transcripts')])
                   /\ transcripts'[Len(transcripts')].session_id
                         = currentSessionId
                   /\ transcripts'[Len(transcripts')].text = lastTranscript'
             /\ AddTranscriptWouldFail
                => /\ ~asrLast'.emitted
                   /\ transcripts' = transcripts
                   /\ lastTranscript' = lastTranscript]_vars

\* A result that handleTranscript accepted for a session without a row was
\* not persisted, and a result for a session with a row was persisted
FailedTranscriptNotEmitted ==
    /\ asrLast.seen
    /\ asrLast.confidence >= confidenceThreshold
    /\ ~asrLast.persisted
    /\ ~asrLast.emitted
    /\ AddTranscriptWouldFail
    /\ consecutiveErrors > 0
    /\ lastTranscript = <<>>

====
